---- MODULE Spec2Model ----
(***************************************************************************)
(* Pasty: the shared state module (state.js), the canvas interaction       *)
(* handlers (pasty-canvas), the global keyboard dispatcher (pasty-app)     *)
(* and the layer panel (pasty-panel).                                      *)
(*                                                                         *)
(* Conventions.  A layer is a record over the field names of state.js.     *)
(* Opacity is kept in percent (the slider's unit, value / 100 in the       *)
(* code).  Layer ids and image ids (crypto.randomUUID()) are the integers  *)
(* 1..MaxLayers and 1..MaxImages; 0 stands for null.  An image payload     *)
(* (a base64 data URL) is a non-empty string, "" is the empty sentinel.    *)
(* The operations of state.js are operators from a module state m (the     *)
(* record State) to the module state after the call; a handler is the      *)
(* composition of the calls it makes.                                      *)
(***************************************************************************)
EXTENDS Integers, Sequences, FiniteSets, TLC

VARIABLES
  layers,           \* _layers
  viewBox,          \* _viewBox
  zoomLevel,        \* _zoomLevel, the fraction num / den
  selectedLayerId,  \* _selectedLayerId (0 = null)
  undoStack,        \* _undoStack: JSON texts
  redoStack,        \* _redoStack
  imageCache,       \* _imageCache: imageId -> payload
  imageStore,       \* IndexedDB object store "images"
  localStorage,     \* item "pasty-state": <<>> (absent) or <<text>>
  events,           \* events dispatched by the last handler, in order
  thrown,           \* error thrown by the last handler ("" = none)
  canvas,           \* the gesture fields of PastyCanvas
  txQueue,          \* IndexedDB transactions not yet complete, oldest first
  lastOp,           \* the last operation: [op, id, n]
  scn,              \* checkpoint / mutation / undo / redo scenario in progress
  steps             \* number of operations so far

vars == <<layers, viewBox, zoomLevel, selectedLayerId, undoStack, redoStack,
          imageCache, imageStore, localStorage, events, thrown, canvas,
          txQueue, lastOp, scn, steps>>

---------------------------------------------------------------------------
(* Bounds of the model *)

MaxLayers == 3
MaxImages == 3
MaxSteps == 4
MaxEvents == 4
MaxEdits == 2
MaxAsync == 6

(* Program constants *)

NoLayer == 0
NoImage == 0
InitialW == 800
InitialH == 600

LayerIds == 1..MaxLayers
ImageIds == 1..MaxImages

DefaultViewBox == [x |-> 0, y |-> 0, w |-> InitialW, h |-> InitialH]

DataUrl == "data:image/png;base64"
EmptyData == ""

---------------------------------------------------------------------------
(* Generic helpers *)

Min(a, b) == IF a < b THEN a ELSE b
Max(a, b) == IF a > b THEN a ELSE b

MapSet(f, k, v) == [x \in DOMAIN f \cup {k} |-> IF x = k THEN v ELSE f[x]]
MapDelete(f, k) == [x \in DOMAIN f \ {k} |-> f[x]]
EmptyMap == [x \in {} |-> EmptyData]

\* Array.prototype.findIndex on the id, 1-based; 0 when absent (-1 in JS)
FindIndex(ls, id) ==
  IF \E i \in 1..Len(ls) : ls[i].id = id
  THEN CHOOSE i \in 1..Len(ls) :
         ls[i].id = id /\ \A j \in 1..(i - 1) : ls[j].id # id
  ELSE 0

\* splice(idx, 1) and splice(idx, 0, l), idx 1-based
RemoveAt(ls, idx) == SubSeq(ls, 1, idx - 1) \o SubSeq(ls, idx + 1, Len(ls))
InsertAt(ls, idx, l) == SubSeq(ls, 1, idx - 1) \o <<l>> \o SubSeq(ls, idx, Len(ls))

\* Object.assign(layer, propsObj)
Assign(l, props) ==
  [k \in DOMAIN l \cup DOMAIN props |-> IF k \in DOMAIN props THEN props[k] ELSE l[k]]

\* delete layer[key]
DeleteField(l, key) == [k \in DOMAIN l \ {key} |-> l[k]]

---------------------------------------------------------------------------
(* JSON.stringify / JSON.parse of a layer list.  The text of a layer is    *)
(* the sequence of its "key": value members; parsing rebuilds the object   *)
(* from the members.                                                       *)

FieldOrder ==
  <<"id", "name", "imageId", "x", "y", "width", "height", "opacity",
    "visible", "locked", "blendMode", "rotation", "imageData">>

StringifyLayer(l) ==
  LET ks == SelectSeq(FieldOrder, LAMBDA k : k \in DOMAIN l)
  IN  [i \in 1..Len(ks) |-> <<ks[i], l[ks[i]]>>]

ParseLayer(t) ==
  [k \in {t[i][1] : i \in 1..Len(t)} |->
     t[CHOOSE i \in 1..Len(t) : t[i][1] = k][2]]

JSONstringify(ls) == [i \in 1..Len(ls) |-> StringifyLayer(ls[i])]
JSONparse(text) == [i \in 1..Len(text) |-> ParseLayer(text[i])]

---------------------------------------------------------------------------
(* The module state of state.js *)

State ==
  [layers |-> layers, viewBox |-> viewBox, zoomLevel |-> zoomLevel,
   selectedLayerId |-> selectedLayerId, undoStack |-> undoStack,
   redoStack |-> redoStack, imageCache |-> imageCache,
   imageStore |-> imageStore, localStorage |-> localStorage,
   events |-> <<>>, thrown |-> ""]

\* the module state after a handler has run
Becomes(m) ==
  /\ layers' = m.layers
  /\ viewBox' = m.viewBox
  /\ zoomLevel' = m.zoomLevel
  /\ selectedLayerId' = m.selectedLayerId
  /\ undoStack' = m.undoStack
  /\ redoStack' = m.redoStack
  /\ imageCache' = m.imageCache
  /\ imageStore' = m.imageStore
  /\ localStorage' = m.localStorage
  /\ events' = m.events
  /\ thrown' = m.thrown

\* event.detail when dispatch is given no detail
NoDetail == [id |-> NoLayer]

\* document.dispatchEvent(new CustomEvent(eventName, { detail })); the
\* listeners run inside the call and read the state as it is then (seen)
dispatch(m, eventName, detail) ==
  [m EXCEPT !.events =
     Append(@, [type |-> eventName, detail |-> detail,
                seen |-> [layers |-> m.layers,
                          selectedLayerId |-> m.selectedLayerId]])]

---------------------------------------------------------------------------
(* Image store *)

\* storeImage, run to completion: cache first, then the IndexedDB put
storeImage(m, imageId, data) ==
  [m EXCEPT !.imageCache = MapSet(@, imageId, data),
            !.imageStore = MapSet(@, imageId, data)]

\* deleteImage, run to completion
deleteImage(m, imageId) ==
  [m EXCEPT !.imageCache = MapDelete(@, imageId),
            !.imageStore = MapDelete(@, imageId)]

\* storeImage leaving the cache alone until the write is done
storeImageBegin_cacheLater(m, imageId, data) == m

\* storeImage up to its first await: the cache entry is set
storeImageBegin(m, imageId, data) ==
  [m EXCEPT !.imageCache = MapSet(@, imageId, data)]

\* _imageCache.get(imageId) || ''
getImageSync(m, imageId) ==
  IF imageId \in DOMAIN m.imageCache THEN m.imageCache[imageId] ELSE EmptyData

\* the value getImage resolves to
getImageValue(m, imageId) ==
  IF imageId \in DOMAIN m.imageCache THEN m.imageCache[imageId]
  ELSE IF imageId \in DOMAIN m.imageStore THEN m.imageStore[imageId]
  ELSE EmptyData

\* getImage's effect: a store hit fills the cache
getImage(m, imageId) ==
  IF imageId \notin DOMAIN m.imageCache /\ imageId \in DOMAIN m.imageStore
  THEN [m EXCEPT !.imageCache = MapSet(@, imageId, m.imageStore[imageId])]
  ELSE m

\* image ids of a layer list: if (layer.imageId) referenced.add(layer.imageId)
ImageIdsOf(ls) == {ls[i].imageId : i \in {j \in 1..Len(ls) : ls[j].imageId # NoImage}}

\* parseAndCollect(stack)
parseAndCollect(stack) ==
  UNION {ImageIdsOf(JSONparse(stack[i])) : i \in 1..Len(stack)}

\* a referenced set that leaves the undo stack out
Referenced_noUndo(m) ==
  ImageIdsOf(m.layers) \cup parseAndCollect(m.redoStack)

\* the referenced set collectGarbageImages builds
Referenced(m) ==
  ImageIdsOf(m.layers) \cup parseAndCollect(m.undoStack) \cup parseAndCollect(m.redoStack)

RECURSIVE deleteAll(_, _)
deleteAll(m, ids) ==
  IF ids = {} THEN m
  ELSE LET id == CHOOSE i \in ids : TRUE
       IN  deleteAll(deleteImage(m, id), ids \ {id})

\* collectGarbageImages with nothing else running between its awaits
collectGarbageImages(m) ==
  LET referenced == Referenced(m)
      allImages == DOMAIN m.imageStore
  IN  deleteAll(m, {id \in allImages : id \notin referenced})

---------------------------------------------------------------------------
(* Mutators *)

addLayer(m, layerObj) ==
  LET l == IF "rotation" \in DOMAIN layerObj THEN layerObj
           ELSE Assign(layerObj, [rotation |-> 0])
  IN  dispatch([m EXCEPT !.layers = Append(@, l)], "state-changed", NoDetail)

\* removeLayer moving the selection to the layer before the removed one
removeLayer_selectPrevious(m, id) ==
  LET idx == FindIndex(m.layers, id)
      rest == RemoveAt(m.layers, idx)
  IN  IF idx = 0 THEN m
      ELSE dispatch(
             [m EXCEPT !.layers = rest,
                       !.selectedLayerId =
                          IF m.selectedLayerId = id
                          THEN IF Len(rest) = 0 THEN NoLayer
                               ELSE rest[Max(idx - 1, 1)].id
                          ELSE @],
             "state-changed", NoDetail)

removeLayer(m, id) ==
  LET idx == FindIndex(m.layers, id)
      rest == RemoveAt(m.layers, idx)
  IN  IF idx = 0 THEN m
      ELSE dispatch(
             [m EXCEPT !.layers = rest,
                       !.selectedLayerId =
                          IF m.selectedLayerId = id
                          THEN IF Len(rest) = 0 THEN NoLayer
                               ELSE rest[Min(idx, Len(rest))].id
                          ELSE @],
             "state-changed", NoDetail)

\* updateLayer dispatching before it merges the properties
updateLayer_dispatchFirst(m, id, propsObj) ==
  LET idx == FindIndex(m.layers, id)
  IN  IF idx = 0 THEN m
      ELSE [dispatch(m, "state-changed", NoDetail)
              EXCEPT !.layers[idx] = Assign(@, propsObj)]

\* updateLayer replacing the record by the properties and the id
updateLayer_replace(m, id, propsObj) ==
  LET idx == FindIndex(m.layers, id)
  IN  IF idx = 0 THEN m
      ELSE dispatch([m EXCEPT !.layers[idx] = Assign([id |-> id], propsObj)],
                    "state-changed", NoDetail)

updateLayer(m, id, propsObj) ==
  LET idx == FindIndex(m.layers, id)
  IN  IF idx = 0 THEN m
      ELSE dispatch([m EXCEPT !.layers[idx] = Assign(@, propsObj)], "state-changed", NoDetail)

\* reorderLayer clamping to the last index of the list after the removal
reorderLayer_clampLast(m, id, newIndex) ==
  LET oldIndex == FindIndex(m.layers, id)
      rest == RemoveAt(m.layers, oldIndex)
      clampedIndex == Max(0, Min(newIndex, Len(rest) - 1))
  IN  IF oldIndex = 0 THEN m
      ELSE dispatch([m EXCEPT !.layers = InsertAt(rest, clampedIndex + 1, m.layers[oldIndex])],
                    "state-changed", NoDetail)

\* reorderLayer without the early return: splice(-1, 1) takes the last layer
reorderLayer_noGuard(m, id, newIndex) ==
  LET found == FindIndex(m.layers, id)
      oldIndex == IF found = 0 THEN Len(m.layers) ELSE found
      rest == RemoveAt(m.layers, oldIndex)
      clampedIndex == Max(0, Min(newIndex, Len(rest)))
  IN  IF oldIndex = 0 THEN dispatch(m, "state-changed", NoDetail)
      ELSE dispatch([m EXCEPT !.layers = InsertAt(rest, clampedIndex + 1, m.layers[oldIndex])],
                    "state-changed", NoDetail)

\* newIndex is the 0-based index of the caller
reorderLayer(m, id, newIndex) ==
  LET oldIndex == FindIndex(m.layers, id)
      rest == RemoveAt(m.layers, oldIndex)
      clampedIndex == Max(0, Min(newIndex, Len(rest)))
  IN  IF oldIndex = 0 THEN m
      ELSE dispatch([m EXCEPT !.layers = InsertAt(rest, clampedIndex + 1, m.layers[oldIndex])],
                    "state-changed", NoDetail)

selectLayer(m, id) ==
  dispatch([m EXCEPT !.selectedLayerId = id], "layer-selected", [id |-> id])

setViewBox(m, vb) ==
  dispatch([m EXCEPT !.viewBox = vb,
                     !.zoomLevel = [num |-> InitialW, den |-> vb.w]],
           "state-changed", NoDetail)

setZoom(m, level) == [m EXCEPT !.zoomLevel = level]

---------------------------------------------------------------------------
(* Undo / redo *)

\* pushUndo leaving the redo stack alone
pushUndo_keepRedo(m) ==
  [m EXCEPT !.undoStack = Append(@, JSONstringify(m.layers))]

pushUndo(m) ==
  [m EXCEPT !.undoStack = Append(@, JSONstringify(m.layers)),
            !.redoStack = <<>>]

\* undo dispatching its event on an empty stack too
undo_dispatchAlways(m) ==
  IF Len(m.undoStack) = 0 THEN dispatch(m, "state-changed", NoDetail)
  ELSE dispatch(
         [m EXCEPT !.redoStack = Append(@, JSONstringify(m.layers)),
                   !.layers = JSONparse(m.undoStack[Len(m.undoStack)]),
                   !.undoStack = SubSeq(@, 1, Len(@) - 1)],
         "state-changed", NoDetail)

\* undo that forgets to push the current list onto the redo stack
undo_noRedoPush(m) ==
  IF Len(m.undoStack) = 0 THEN m
  ELSE dispatch(
         [m EXCEPT !.layers = JSONparse(m.undoStack[Len(m.undoStack)]),
                   !.undoStack = SubSeq(@, 1, Len(@) - 1)],
         "state-changed", NoDetail)

undo(m) ==
  IF Len(m.undoStack) = 0 THEN m
  ELSE dispatch(
         [m EXCEPT !.redoStack = Append(@, JSONstringify(m.layers)),
                   !.layers = JSONparse(m.undoStack[Len(m.undoStack)]),
                   !.undoStack = SubSeq(@, 1, Len(@) - 1)],
         "state-changed", NoDetail)

redo(m) ==
  IF Len(m.redoStack) = 0 THEN m
  ELSE dispatch(
         [m EXCEPT !.undoStack = Append(@, JSONstringify(m.layers)),
                   !.layers = JSONparse(m.redoStack[Len(m.redoStack)]),
                   !.redoStack = SubSeq(@, 1, Len(@) - 1)],
         "state-changed", NoDetail)

---------------------------------------------------------------------------
(* Persistence *)

\* saveState writing the redo stack as empty
saveState_noRedo(m) ==
  [m EXCEPT !.localStorage =
     <<[layers |-> JSONstringify(m.layers), viewBox |-> m.viewBox,
        selectedLayerId |-> m.selectedLayerId, undoStack |-> m.undoStack,
        redoStack |-> <<>>]>>]

saveState(m) ==
  [m EXCEPT !.localStorage =
     <<[layers |-> JSONstringify(m.layers), viewBox |-> m.viewBox,
        selectedLayerId |-> m.selectedLayerId, undoStack |-> m.undoStack,
        redoStack |-> m.redoStack]>>]

---------------------------------------------------------------------------
(* Project import / export.  A document is a JS value: NullDoc, or an      *)
(* object whose fields may be absent; its layers field is tagged as an     *)
(* array or not.                                                           *)

NullDoc == [null |-> TRUE]

\* !jsonObj || !jsonObj.version || !Array.isArray(jsonObj.layers)
InvalidProject(doc) ==
  \/ "null" \in DOMAIN doc
  \/ "version" \notin DOMAIN doc
  \/ doc.version = 0
  \/ "layers" \notin DOMAIN doc
  \/ ~doc.layers.array

\* if (layer.imageData)
HasImageData(layer) == "imageData" \in DOMAIN layer /\ layer.imageData # EmptyData

RECURSIVE importLayers(_, _)
importLayers(m, items) ==
  IF items = <<>> THEN m
  ELSE LET layer == Head(items)
           m1 == IF HasImageData(layer)
                 THEN storeImage(m, layer.imageId, layer.imageData)
                 ELSE m
           l1 == IF HasImageData(layer) THEN DeleteField(layer, "imageData")
                 ELSE layer
       IN  importLayers([m1 EXCEPT !.layers = Append(@, l1)], Tail(items))

\* importProject clearing the live state before it validates
importProject_clearFirst(m, doc) ==
  LET cleared == [m EXCEPT !.layers = <<>>, !.undoStack = <<>>, !.redoStack = <<>>]
  IN  IF InvalidProject(doc)
      THEN [cleared EXCEPT !.thrown = "Invalid project file: must have version and layers array"]
      ELSE dispatch(saveState(importLayers(cleared, doc.layers.items)), "state-changed", NoDetail)

\* importProject with nothing else running between its awaits
importProject(m, doc) ==
  IF InvalidProject(doc)
  THEN [m EXCEPT !.thrown = "Invalid project file: must have version and layers array"]
  ELSE LET cleared == [m EXCEPT !.layers = <<>>, !.undoStack = <<>>, !.redoStack = <<>>]
           filled == importLayers(cleared, doc.layers.items)
           restored ==
             [filled EXCEPT
                !.viewBox = IF "viewBox" \in DOMAIN doc THEN doc.viewBox
                            ELSE DefaultViewBox,
                !.selectedLayerId =
                   IF "selectedLayerId" \in DOMAIN doc THEN doc.selectedLayerId
                   ELSE NoLayer]
       IN  dispatch(saveState(restored), "state-changed", NoDetail)

\* the document exportProject resolves to
exportDocument(m) ==
  [version |-> 1,
   layers |-> [array |-> TRUE,
               items |-> [i \in 1..Len(m.layers) |->
                            Assign(m.layers[i],
                                   [imageData |-> getImageValue(m, m.layers[i].imageId)])]],
   viewBox |-> m.viewBox,
   selectedLayerId |-> m.selectedLayerId]

RECURSIVE resolveImages(_, _)
resolveImages(m, ls) ==
  IF ls = <<>> THEN m
  ELSE resolveImages(getImage(m, Head(ls).imageId), Tail(ls))

\* exportProject's effect on the module state (cache fills)
exportProject(m) == resolveImages(m, m.layers)

---------------------------------------------------------------------------
(* Inputs *)

\* the layer object _onPaste / _onDrop build (no rotation field)
PastedLayer(id, imageId, n) ==
  [id |-> id, name |-> "Layer " \o ToString(n), imageId |-> imageId,
   x |-> 0, y |-> 0, width |-> 100, height |-> 50, opacity |-> 100,
   visible |-> TRUE, locked |-> FALSE, blendMode |-> "normal"]

\* a layer as addLayer leaves it
StoredLayer(id, imageId, n) == Assign(PastedLayer(id, imageId, n), [rotation |-> 0])

\* ids no live layer and no snapshot uses
UsedLayerIds(m) ==
  LET idsOf(ls) == {ls[i].id : i \in 1..Len(ls)}
  IN  idsOf(m.layers)
      \cup UNION {idsOf(JSONparse(m.undoStack[i])) : i \in 1..Len(m.undoStack)}
      \cup UNION {idsOf(JSONparse(m.redoStack[i])) : i \in 1..Len(m.redoStack)}

\* property objects passed to updateLayer
PropsSet ==
  {[x |-> 15, y |-> 5], [width |-> 120, height |-> 60], [locked |-> TRUE]}

ViewBoxes == {DefaultViewBox, [x |-> 40, y |-> 30, w |-> InitialW, h |-> InitialH]}

DocLayer(id, imageId) == StoredLayer(id, imageId, id)

\* documents handed to importProject
Docs ==
  << NullDoc,
     [layers |-> [array |-> TRUE, items |-> <<>>]],
     [version |-> 1, layers |-> [array |-> FALSE]],
     [version |-> 1,
      layers |-> [array |-> TRUE,
                  items |-> <<Assign(DocLayer(1, 1), [imageData |-> DataUrl])>>],
      viewBox |-> [x |-> 40, y |-> 30, w |-> InitialW, h |-> InitialH],
      selectedLayerId |-> 1],
     [version |-> 1,
      layers |-> [array |-> TRUE,
                  items |-> <<Assign(DocLayer(2, 2), [imageData |-> DataUrl]),
                              DocLayer(1, 1)>>]],
     [version |-> 1,
      layers |-> [array |-> TRUE,
                  items |-> <<Assign(DocLayer(1, 1), [imageData |-> EmptyData])>>],
      selectedLayerId |-> NoLayer] >>

---------------------------------------------------------------------------
(* Bookkeeping of the model: the last operation and the scenario           *)
(* checkpoint, mutation, undo, redo.                                       *)

Mutations == {"addLayer", "removeLayer", "updateLayer", "reorderLayer"}

NoScenario == [phase |-> 0, atPush |-> <<>>, postMut |-> <<>>]

ScenarioAfter(op, m) ==
  IF op = "pushUndo" THEN [phase |-> 1, atPush |-> m.layers, postMut |-> <<>>]
  ELSE IF op \in Mutations /\ scn.phase = 1
       THEN [scn EXCEPT !.phase = 2, !.postMut = m.layers]
  ELSE IF op = "undo" /\ scn.phase = 2 THEN [scn EXCEPT !.phase = 3]
  ELSE IF op = "redo" /\ scn.phase = 3 THEN [scn EXCEPT !.phase = 4]
  ELSE NoScenario

\* one call of an operation of state.js
Call(op, id, n, m) ==
  /\ steps < MaxSteps
  /\ steps' = steps + 1
  /\ Becomes(m)
  /\ UNCHANGED <<canvas, txQueue>>
  /\ lastOp' = [op |-> op, id |-> id, n |-> n]
  /\ scn' = ScenarioAfter(op, m)

---------------------------------------------------------------------------
(* Operations of state.js, called one at a time *)

\* n: the redo snapshots the checkpoint finds
PushUndo == Call("pushUndo", 0, Len(redoStack), pushUndo(State))

Undo == Call("undo", 0, 0, undo(State))

Redo == Call("redo", 0, 0, redo(State))

\* crypto.randomUUID(): an id nothing uses yet (the least one, ids being opaque)
FreshId(ids, used) == CHOOSE i \in ids \ used : \A j \in ids \ used : i <= j

UsedImageIds(m) == Referenced(m) \cup DOMAIN m.imageStore \cup DOMAIN m.imageCache

AddLayer ==
  /\ LayerIds \ UsedLayerIds(State) # {}
  /\ ImageIds \ UsedImageIds(State) # {}
  /\ LET id == FreshId(LayerIds, UsedLayerIds(State))
         imageId == FreshId(ImageIds, UsedImageIds(State))
     IN  Call("addLayer", id, imageId,
              addLayer(State, PastedLayer(id, imageId, Len(layers) + 1)))

\* n: the position of the layer when it is the selected one
RemoveLayer ==
  \E id \in LayerIds :
    Call("removeLayer", id,
         IF selectedLayerId = id THEN FindIndex(layers, id) ELSE 0,
         removeLayer(State, id))

UpdateLayer ==
  \E id \in LayerIds, props \in PropsSet :
    Call("updateLayer", id, 0, updateLayer(State, id, props))

ReorderLayer ==
  \E id \in LayerIds, n \in (0 - 1)..(MaxLayers + 1) :
    Call("reorderLayer", id, n, reorderLayer(State, id, n))

SelectLayer == \E id \in LayerIds : Call("selectLayer", id, 0, selectLayer(State, id))

SetViewBox == \E vb \in ViewBoxes : Call("setViewBox", 0, 0, setViewBox(State, vb))

StoreImage ==
  /\ ImageIds \ UsedImageIds(State) # {}
  /\ LET imageId == FreshId(ImageIds, UsedImageIds(State))
     IN  Call("storeImage", imageId, 0, storeImage(State, imageId, DataUrl))

\* n records the number of stored images before the sweep
CollectGarbageImages ==
  Call("collectGarbageImages", 0, Cardinality(DOMAIN imageStore),
       collectGarbageImages(State))

SaveState == Call("saveState", 0, 0, saveState(State))

ImportProject ==
  \E d \in 1..Len(Docs) : Call("importProject", 0, d, importProject(State, Docs[d]))

\* importProject(await exportProject())
ExportImport ==
  Call("exportImport", 0, 0,
       importProject(exportProject(State), exportDocument(State)))

---------------------------------------------------------------------------
(* Image ingestion (pasty-canvas) *)

\* _onPaste's img.onload after storeImage has resolved
pasteContinue(m, id, imageId) ==
  saveState(addLayer(pushUndo(m), PastedLayer(id, imageId, Len(m.layers) + 1)))

\* _onPaste with nothing else running while the image is stored
Paste ==
  /\ LayerIds \ UsedLayerIds(State) # {}
  /\ ImageIds \ UsedImageIds(State) # {}
  /\ LET id == FreshId(LayerIds, UsedLayerIds(State))
         imageId == FreshId(ImageIds, UsedImageIds(State))
     IN  Call("paste", id, imageId,
              pasteContinue(storeImage(State, imageId, DataUrl), id, imageId))

---------------------------------------------------------------------------
(* PastyCanvas: the gesture fields and the pointer / key handlers.         *)
(* The svg element's bounding rect is Rect; pointer positions are client   *)
(* coordinates.                                                            *)

Rect == [left |-> 0, top |-> 0, width |-> InitialW, height |-> InitialH]

\* the fields the constructor sets
IdleCanvas ==
  [spaceDown |-> FALSE, isPanning |-> FALSE, rKeyDown |-> FALSE,
   dragLayerId |-> NoLayer, dragStartX |-> 0, dragStartY |-> 0,
   layerStartX |-> 0, layerStartY |-> 0,
   panStartX |-> 0, panStartY |-> 0, viewBoxStart |-> DefaultViewBox,
   transformMode |-> "", transformLayerId |-> NoLayer,
   transformStartX |-> 0, transformStartY |-> 0,
   layerStartW |-> 0, layerStartH |-> 0, layerStartRot |-> 0]

\* _clientToSvg (exact for the pointer positions and viewboxes of the model)
clientToSvg(m, clientX, clientY) ==
  [x |-> m.viewBox.x + ((clientX - Rect.left) * m.viewBox.w) \div Rect.width,
   y |-> m.viewBox.y + ((clientY - Rect.top) * m.viewBox.h) \div Rect.height]

LayerById(m, id) == m.layers[FindIndex(m.layers, id)]

\* layer.rotation || 0
RotationOf(layer) == IF "rotation" \in DOMAIN layer THEN layer.rotation ELSE 0

\* Math.round(Math.atan2(dy, dx) * (180 / Math.PI)) on the axes and diagonals
IsPrincipal(dy, dx) == dx = 0 \/ dy = 0 \/ dx = dy \/ dx = 0 - dy
RoundedAngle(dy, dx) ==
  IF dy = 0 THEN (IF dx >= 0 THEN 0 ELSE 180)
  ELSE IF dx = 0 THEN (IF dy > 0 THEN 90 ELSE 0 - 90)
  ELSE IF dx > 0 THEN (IF dy > 0 THEN 45 ELSE 0 - 45)
  ELSE (IF dy > 0 THEN 135 ELSE 0 - 135)

\* _onMouseDown testing the Shift key before the R key
onMouseDown_shiftFirst(m, c, e) ==
  IF c.spaceDown \/ e.target = NoLayer \/ LayerById(m, e.target).locked
  THEN [m |-> m, c |-> c]
  ELSE
    LET layer == LayerById(m, e.target)
        m1 == selectLayer(m, e.target)
        pt == clientToSvg(m, e.clientX, e.clientY)
    IN  IF e.altKey
        THEN [m |-> m1,
              c |-> [c EXCEPT !.transformLayerId = e.target,
                              !.transformStartX = e.clientX,
                              !.transformStartY = e.clientY,
                              !.layerStartW = layer.width,
                              !.layerStartH = layer.height,
                              !.layerStartRot = RotationOf(layer),
                              !.transformMode =
                                 IF e.shiftKey THEN "scale-locked"
                                 ELSE IF c.rKeyDown THEN "rotate"
                                 ELSE "scale"]]
        ELSE [m |-> m1,
              c |-> [c EXCEPT !.dragLayerId = e.target,
                              !.dragStartX = pt.x, !.dragStartY = pt.y,
                              !.layerStartX = layer.x, !.layerStartY = layer.y]]

\* e: [target, clientX, clientY, altKey, shiftKey]
onMouseDown(m, c, e) ==
  IF c.spaceDown \/ e.target = NoLayer \/ LayerById(m, e.target).locked
  THEN [m |-> m, c |-> c]
  ELSE
    LET layer == LayerById(m, e.target)
        m1 == selectLayer(m, e.target)
        pt == clientToSvg(m, e.clientX, e.clientY)
    IN  IF e.altKey
        THEN [m |-> m1,
              c |-> [c EXCEPT !.transformLayerId = e.target,
                              !.transformStartX = e.clientX,
                              !.transformStartY = e.clientY,
                              !.layerStartW = layer.width,
                              !.layerStartH = layer.height,
                              !.layerStartRot = RotationOf(layer),
                              !.transformMode =
                                 IF c.rKeyDown THEN "rotate"
                                 ELSE IF e.shiftKey THEN "scale-locked"
                                 ELSE "scale"]]
        ELSE [m |-> m1,
              c |-> [c EXCEPT !.dragLayerId = e.target,
                              !.dragStartX = pt.x, !.dragStartY = pt.y,
                              !.layerStartX = layer.x, !.layerStartY = layer.y]]

\* the transform branch taking the height of a proportional scale from the
\* vertical delta
transformMove_lockedFree(m, c, e) ==
  LET dxPx == e.clientX - c.transformStartX
      dyPx == e.clientY - c.transformStartY
      newW == Max(10, c.layerStartW + dxPx)
  IN  IF c.transformMode = "scale"
      THEN updateLayer(m, c.transformLayerId,
                       [width |-> newW, height |-> Max(10, c.layerStartH + dyPx)])
      ELSE IF c.transformMode = "scale-locked"
      THEN updateLayer(m, c.transformLayerId,
                       [width |-> newW,
                        height |-> Max(10, c.layerStartH + dyPx)])
      ELSE IF FindIndex(m.layers, c.transformLayerId) # 0
      THEN LET layer == LayerById(m, c.transformLayerId)
               svgPt == clientToSvg(m, e.clientX, e.clientY)
               cx2 == 2 * layer.x + layer.width
               cy2 == 2 * layer.y + layer.height
           IN  updateLayer(m, c.transformLayerId,
                           [rotation |-> RoundedAngle(2 * svgPt.y - cy2, 2 * svgPt.x - cx2)])
      ELSE m

\* the transform branch of _onMouseMove
transformMove(m, c, e) ==
  LET dxPx == e.clientX - c.transformStartX
      dyPx == e.clientY - c.transformStartY
      newW == Max(10, c.layerStartW + dxPx)
  IN  IF c.transformMode = "scale"
      THEN updateLayer(m, c.transformLayerId,
                       [width |-> newW, height |-> Max(10, c.layerStartH + dyPx)])
      ELSE IF c.transformMode = "scale-locked"
      THEN updateLayer(m, c.transformLayerId,
                       [width |-> newW,
                        height |-> Max(10, (2 * newW * c.layerStartH + c.layerStartW)
                                             \div (2 * c.layerStartW))])
      ELSE IF FindIndex(m.layers, c.transformLayerId) # 0
      THEN LET layer == LayerById(m, c.transformLayerId)
               svgPt == clientToSvg(m, e.clientX, e.clientY)
               cx2 == 2 * layer.x + layer.width
               cy2 == 2 * layer.y + layer.height
           IN  updateLayer(m, c.transformLayerId,
                           [rotation |-> RoundedAngle(2 * svgPt.y - cy2, 2 * svgPt.x - cx2)])
      ELSE m

\* the pointer positions whose angle the model computes
MoveComputable(m, c, e) ==
  (c.transformMode = "rotate" /\ c.transformLayerId # NoLayer
     /\ ~(c.spaceDown /\ e.buttons = 1)
     /\ FindIndex(m.layers, c.transformLayerId) # 0) =>
    LET layer == LayerById(m, c.transformLayerId)
        svgPt == clientToSvg(m, e.clientX, e.clientY)
    IN  IsPrincipal(2 * svgPt.y - (2 * layer.y + layer.height),
                    2 * svgPt.x - (2 * layer.x + layer.width))

\* _onMouseMove whose drag branch adds the delta to the layer's current
\* position instead of the position captured at mousedown
onMouseMove_fromCurrent(m, c, e) ==
  IF c.spaceDown /\ e.buttons = 1 THEN [m |-> m, c |-> c]
  ELSE IF c.transformMode # "" /\ c.transformLayerId # NoLayer
  THEN [m |-> transformMove(m, c, e), c |-> c]
  ELSE IF c.dragLayerId # NoLayer /\ FindIndex(m.layers, c.dragLayerId) # 0
  THEN LET pt == clientToSvg(m, e.clientX, e.clientY)
           layer == LayerById(m, c.dragLayerId)
       IN  [m |-> updateLayer(m, c.dragLayerId,
                              [x |-> layer.x + (pt.x - c.dragStartX),
                               y |-> layer.y + (pt.y - c.dragStartY)]),
            c |-> c]
  ELSE [m |-> m, c |-> c]

\* _onMouseMove whose pan branch starts from the current viewbox instead
\* of the one captured at pan start
onMouseMove_panFromCurrent(m, c, e) ==
  IF c.spaceDown /\ e.buttons = 1
  THEN LET c1 == IF c.isPanning THEN c
                 ELSE [c EXCEPT !.isPanning = TRUE, !.panStartX = e.clientX,
                                !.panStartY = e.clientY, !.viewBoxStart = m.viewBox]
           vb == m.viewBox
           dx == ((e.clientX - c1.panStartX) * vb.w) \div Rect.width
           dy == ((e.clientY - c1.panStartY) * vb.h) \div Rect.height
       IN  [m |-> setViewBox(m, [x |-> vb.x - dx, y |-> vb.y - dy, w |-> vb.w, h |-> vb.h]),
            c |-> c1]
  ELSE IF c.transformMode # "" /\ c.transformLayerId # NoLayer
  THEN [m |-> transformMove(m, c, e), c |-> c]
  ELSE IF c.dragLayerId # NoLayer
  THEN LET pt == clientToSvg(m, e.clientX, e.clientY)
       IN  [m |-> updateLayer(m, c.dragLayerId,
                              [x |-> c.layerStartX + (pt.x - c.dragStartX),
                               y |-> c.layerStartY + (pt.y - c.dragStartY)]),
            c |-> c]
  ELSE [m |-> m, c |-> c]

\* e: [clientX, clientY, buttons]
onMouseMove(m, c, e) ==
  IF c.spaceDown /\ e.buttons = 1
  THEN LET c1 == IF c.isPanning THEN c
                 ELSE [c EXCEPT !.isPanning = TRUE, !.panStartX = e.clientX,
                                !.panStartY = e.clientY, !.viewBoxStart = m.viewBox]
           vb == c1.viewBoxStart
           dx == ((e.clientX - c1.panStartX) * vb.w) \div Rect.width
           dy == ((e.clientY - c1.panStartY) * vb.h) \div Rect.height
       IN  [m |-> setViewBox(m, [x |-> vb.x - dx, y |-> vb.y - dy, w |-> vb.w, h |-> vb.h]),
            c |-> c1]
  ELSE IF c.transformMode # "" /\ c.transformLayerId # NoLayer
  THEN [m |-> transformMove(m, c, e), c |-> c]
  ELSE IF c.dragLayerId # NoLayer
  THEN LET pt == clientToSvg(m, e.clientX, e.clientY)
       IN  [m |-> updateLayer(m, c.dragLayerId,
                              [x |-> c.layerStartX + (pt.x - c.dragStartX),
                               y |-> c.layerStartY + (pt.y - c.dragStartY)]),
            c |-> c]
  ELSE [m |-> m, c |-> c]

onMouseUp(m, c) ==
  IF c.isPanning THEN [m |-> m, c |-> [c EXCEPT !.isPanning = FALSE]]
  ELSE IF c.transformMode # "" /\ c.transformLayerId # NoLayer
  THEN [m |-> saveState(pushUndo(m)),
        c |-> [c EXCEPT !.transformMode = "", !.transformLayerId = NoLayer]]
  ELSE IF c.dragLayerId # NoLayer
  THEN [m |-> saveState(pushUndo(m)), c |-> [c EXCEPT !.dragLayerId = NoLayer]]
  ELSE [m |-> m, c |-> c]

onKeyDown(c, code) ==
  IF code = "Space" THEN [c EXCEPT !.spaceDown = TRUE]
  ELSE IF code = "KeyR" THEN [c EXCEPT !.rKeyDown = TRUE]
  ELSE c

onKeyUp(c, code) ==
  IF code = "Space" THEN [c EXCEPT !.spaceDown = FALSE, !.isPanning = FALSE]
  ELSE IF code = "KeyR" THEN [c EXCEPT !.rKeyDown = FALSE]
  ELSE c

\* e: [touches, target, clientX, clientY]
onTouchStart(m, c, e) ==
  IF e.touches # 1 \/ e.target = NoLayer \/ LayerById(m, e.target).locked
  THEN [m |-> m, c |-> c]
  ELSE LET layer == LayerById(m, e.target)
           pt == clientToSvg(m, e.clientX, e.clientY)
       IN  [m |-> selectLayer(m, e.target),
            c |-> [c EXCEPT !.dragLayerId = e.target,
                            !.dragStartX = pt.x, !.dragStartY = pt.y,
                            !.layerStartX = layer.x, !.layerStartY = layer.y]]

onTouchMove(m, c, e) ==
  IF e.touches # 1 \/ c.dragLayerId = NoLayer THEN [m |-> m, c |-> c]
  ELSE LET pt == clientToSvg(m, e.clientX, e.clientY)
       IN  [m |-> updateLayer(m, c.dragLayerId,
                              [x |-> c.layerStartX + (pt.x - c.dragStartX),
                               y |-> c.layerStartY + (pt.y - c.dragStartY)]),
            c |-> c]

\* touches: the touches still down
onTouchEnd(m, c, touches) ==
  IF c.dragLayerId # NoLayer /\ touches = 0
  THEN [m |-> saveState(pushUndo(m)), c |-> [c EXCEPT !.dragLayerId = NoLayer]]
  ELSE [m |-> m, c |-> c]

---------------------------------------------------------------------------
(* PastyCanvas: wheel zoom and the Fit button.  The factors 1.1 and 0.9    *)
(* are 11/10 and 9/10; every quotient is taken in exact arithmetic, the    *)
(* events of the model being those whose quotients are whole (WheelExact). *)

Div(a, b) == a \div b
Divides(b, a) == a % b = 0

minW == Div(InitialW, 10)
maxW == InitialW * 10

\* Math.max(minW, Math.min(maxW, vb.w * factor))
WheelWidth(vb, deltaY) ==
  LET tenfold == vb.w * (IF deltaY > 0 THEN 11 ELSE 9)
  IN  IF tenfold >= maxW * 10 THEN maxW
      ELSE IF tenfold <= minW * 10 THEN minW
      ELSE Div(tenfold, 10)

\* _onWheel letting the width leave the zoom range
onWheel_noClamp(m, e) ==
  LET vb == m.viewBox
      cursorX == vb.x + Div((e.clientX - Rect.left) * vb.w, Rect.width)
      cursorY == vb.y + Div((e.clientY - Rect.top) * vb.h, Rect.height)
      newW == Div(vb.w * (IF e.deltaY > 0 THEN 11 ELSE 9), 10)
      newX == cursorX - Div((cursorX - vb.x) * newW, vb.w)
      newY == cursorY - Div((cursorY - vb.y) * newW, vb.w)
  IN  setZoom(setViewBox(m, [x |-> newX, y |-> newY, w |-> newW,
                             h |-> Div(vb.h * newW, vb.w)]),
              [num |-> InitialW, den |-> newW])

\* _onWheel keeping the origin where it was
onWheel_originKept(m, e) ==
  LET vb == m.viewBox
      newW == WheelWidth(vb, e.deltaY)
  IN  setZoom(setViewBox(m, [x |-> vb.x, y |-> vb.y, w |-> newW,
                             h |-> Div(vb.h * newW, vb.w)]),
              [num |-> InitialW, den |-> newW])

\* e: [clientX, clientY, deltaY]
onWheel(m, e) ==
  LET vb == m.viewBox
      cursorX == vb.x + Div((e.clientX - Rect.left) * vb.w, Rect.width)
      cursorY == vb.y + Div((e.clientY - Rect.top) * vb.h, Rect.height)
      newW == WheelWidth(vb, e.deltaY)
      newX == cursorX - Div((cursorX - vb.x) * newW, vb.w)
      newY == cursorY - Div((cursorY - vb.y) * newW, vb.w)
  IN  setZoom(setViewBox(m, [x |-> newX, y |-> newY, w |-> newW,
                             h |-> Div(vb.h * newW, vb.w)]),
              [num |-> InitialW, den |-> newW])

\* the wheel events whose quotients are whole numbers
WheelExact(m, e) ==
  LET vb == m.viewBox
      tenfold == vb.w * (IF e.deltaY > 0 THEN 11 ELSE 9)
      newW == WheelWidth(vb, e.deltaY)
      offX == Div((e.clientX - Rect.left) * vb.w, Rect.width)
      offY == Div((e.clientY - Rect.top) * vb.h, Rect.height)
  IN  /\ vb.w > 0
      /\ Divides(Rect.width, (e.clientX - Rect.left) * vb.w)
      /\ Divides(Rect.height, (e.clientY - Rect.top) * vb.h)
      /\ (minW * 10 < tenfold /\ tenfold < maxW * 10) => Divides(10, tenfold)
      /\ Divides(vb.w, offX * newW)
      /\ Divides(vb.w, offY * newW)
      /\ Divides(vb.w, vb.h * newW)

resetZoom(m) ==
  setZoom(setViewBox(m, [x |-> 0, y |-> 0, w |-> InitialW, h |-> InitialH]),
          [num |-> 1, den |-> 1])

---------------------------------------------------------------------------
(* The asynchronous operations, one step per IndexedDB transaction.  Every *)
(* operation runs to its next await; the transactions on the one object    *)
(* store complete in the order they were created, and the code after an    *)
(* await runs when its transaction completes.                              *)

Tx(kind, imageId, data, layerId, referenced, rest) ==
  [kind |-> kind, imageId |-> imageId, data |-> data, layerId |-> layerId,
   referenced |-> referenced, rest |-> rest]

\* the keys of the object store, in key order
RECURSIVE KeysInOrder(_)
KeysInOrder(ids) ==
  IF ids = {} THEN <<>>
  ELSE LET least == CHOOSE i \in ids : \A j \in ids : i <= j
       IN  <<least>> \o KeysInOrder(ids \ {least})

\* the ids still to visit once the ones referenced have been skipped
RECURSIVE SkipReferenced(_, _)
SkipReferenced(rest, referenced) ==
  IF rest = <<>> THEN <<>>
  ELSE IF rest[1] \in referenced THEN SkipReferenced(Tail(rest), referenced)
  ELSE rest

\* the loop of collectGarbageImages from the ids in rest up to its next await:
\* deleteImage drops the cache entry and creates its transaction
gcLoop(m, q, rest, referenced) ==
  LET todo == SkipReferenced(rest, referenced)
  IN  IF todo = <<>> THEN [m |-> m, q |-> q]
      ELSE [m |-> [m EXCEPT !.imageCache = MapDelete(@, todo[1])],
            q |-> Append(q, Tx("delete", todo[1], EmptyData, NoLayer,
                               referenced, Tail(todo)))]

\* the completion of the oldest transaction and the code that awaited it;
\* tx.onerror rejects storeImage's promise, which _onPaste's img.onload
\* awaits without a catch: the rest of the handler never runs
txComplete(m, q) ==
  LET tx == q[1]
      q1 == Tail(q)
  IN  IF tx.kind = "putError"
      THEN [m |-> [m EXCEPT !.thrown = "storeImage rejected"], q |-> q1]
      ELSE IF tx.kind = "put"
      THEN [m |-> pasteContinue(
                    [m EXCEPT !.imageStore = MapSet(@, tx.imageId, tx.data)],
                    tx.layerId, tx.imageId),
            q |-> q1]
      ELSE IF tx.kind = "getAll"
      THEN gcLoop(m, q1, KeysInOrder(DOMAIN m.imageStore), tx.referenced)
      ELSE gcLoop([m EXCEPT !.imageStore = MapDelete(@, tx.imageId)],
                  q1, tx.rest, tx.referenced)

Async(op, id, n, r) ==
  /\ steps < MaxAsync
  /\ steps' = steps + 1
  /\ Becomes(r.m)
  /\ txQueue' = r.q
  /\ UNCHANGED canvas
  /\ lastOp' = [op |-> op, id |-> id, n |-> n]
  /\ scn' = NoScenario

InFlight(kinds) == {i \in 1..Len(txQueue) : txQueue[i].kind \in kinds}

PendingImageIds == {txQueue[i].imageId : i \in InFlight({"put", "putError"})}
PendingLayerIds == {txQueue[i].layerId : i \in InFlight({"put", "putError"})}

\* img.onload of _onPaste up to the await inside storeImage
PasteBegin ==
  /\ LayerIds \ (UsedLayerIds(State) \cup PendingLayerIds) # {}
  /\ ImageIds \ (UsedImageIds(State) \cup PendingImageIds) # {}
  /\ LET id == FreshId(LayerIds, UsedLayerIds(State) \cup PendingLayerIds)
         imageId == FreshId(ImageIds, UsedImageIds(State) \cup PendingImageIds)
     IN  Async("pasteBegin", id, imageId,
               [m |-> storeImageBegin(State, imageId, DataUrl),
                q |-> Append(txQueue, Tx("put", imageId, DataUrl, id, {}, <<>>))])

\* the same with a put transaction that is going to fail
PasteBeginError ==
  /\ LayerIds \ (UsedLayerIds(State) \cup PendingLayerIds) # {}
  /\ ImageIds \ (UsedImageIds(State) \cup PendingImageIds) # {}
  /\ LET id == FreshId(LayerIds, UsedLayerIds(State) \cup PendingLayerIds)
         imageId == FreshId(ImageIds, UsedImageIds(State) \cup PendingImageIds)
     IN  Async("pasteBegin", id, imageId,
               [m |-> storeImageBegin(State, imageId, DataUrl),
                q |-> Append(txQueue, Tx("putError", imageId, DataUrl, id, {}, <<>>))])

\* collectGarbageImages up to the await of getAllImages
GcBegin ==
  /\ InFlight({"getAll", "delete"}) = {}
  /\ Async("gcBegin", 0, 0,
           [m |-> State,
            q |-> Append(txQueue, Tx("getAll", NoImage, EmptyData, NoLayer,
                                     Referenced(State), <<>>))])

TxComplete ==
  /\ txQueue # <<>>
  /\ Async(txQueue[1].kind, txQueue[1].layerId, txQueue[1].imageId,
           txComplete(State, txQueue))

---------------------------------------------------------------------------
(* Initial states: what loadState restores from an earlier session *)

LoadedLayers ==
  { <<>>,
    <<StoredLayer(1, 1, 1)>>,
    <<StoredLayer(1, 1, 1), StoredLayer(2, 2, 2)>> }

InitState(ls, sel) ==
  /\ layers = ls
  /\ viewBox = DefaultViewBox
  /\ zoomLevel = [num |-> InitialW, den |-> InitialW]
  /\ selectedLayerId = sel
  /\ undoStack = <<>>
  /\ redoStack = <<>>
  /\ imageStore = [i \in ImageIdsOf(ls) |-> DataUrl]
  /\ imageCache = [i \in ImageIdsOf(ls) |-> DataUrl]
  /\ localStorage = <<>>
  /\ events = <<>>
  /\ thrown = ""
  /\ canvas = IdleCanvas
  /\ txQueue = <<>>
  /\ lastOp = [op |-> "loadState", id |-> 0, n |-> 0]
  /\ scn = NoScenario
  /\ steps = 0

Init ==
  \E ls \in LoadedLayers :
    \E sel \in {NoLayer} \cup {ls[i].id : i \in 1..Len(ls)} : InitState(ls, sel)

\* the layer store and its history
Next ==
  \/ PushUndo
  \/ Undo
  \/ Redo
  \/ AddLayer
  \/ RemoveLayer
  \/ UpdateLayer
  \/ ReorderLayer
  \/ SelectLayer

Spec == Init /\ [][Next]_vars

\* the image store, the garbage collector and the project serializer
NextProject ==
  \/ PushUndo
  \/ Undo
  \/ Redo
  \/ Paste
  \/ RemoveLayer
  \/ SelectLayer
  \/ SetViewBox
  \/ StoreImage
  \/ CollectGarbageImages
  \/ SaveState
  \/ ImportProject
  \/ ExportImport

SpecProject == Init /\ [][NextProject]_vars

---------------------------------------------------------------------------
(* PastyApp: the global keyboard dispatcher (no text field focused)        *)

keyUndo(m) == saveState(undo(m))

keyRedo(m) == saveState(redo(m))

getSelectedLayer(m) == FindIndex(m.layers, m.selectedLayerId)

\* step / zoom, the zoom level being initialW / viewBox.w
AdjustedStep(m, shiftKey) ==
  ((IF shiftKey THEN 10 ELSE 1) * m.zoomLevel.den) \div m.zoomLevel.num

\* the nudge taking its checkpoint after the move
keyNudge_checkpointAfter(m, key, shiftKey) ==
  LET idx == getSelectedLayer(m) IN
  IF idx = 0 \/ m.layers[idx].locked THEN m
  ELSE LET layer == m.layers[idx]
           step == AdjustedStep(m, shiftKey)
           dx == IF key = "ArrowLeft" THEN 0 - step
                 ELSE IF key = "ArrowRight" THEN step ELSE 0
           dy == IF key = "ArrowUp" THEN 0 - step
                 ELSE IF key = "ArrowDown" THEN step ELSE 0
       IN  saveState(pushUndo(updateLayer(m, layer.id,
                                 [x |-> layer.x + dx, y |-> layer.y + dy])))

keyNudge(m, key, shiftKey) ==
  LET idx == getSelectedLayer(m) IN
  IF idx = 0 \/ m.layers[idx].locked THEN m
  ELSE LET layer == m.layers[idx]
           step == AdjustedStep(m, shiftKey)
           dx == IF key = "ArrowLeft" THEN 0 - step
                 ELSE IF key = "ArrowRight" THEN step ELSE 0
           dy == IF key = "ArrowUp" THEN 0 - step
                 ELSE IF key = "ArrowDown" THEN step ELSE 0
       IN  saveState(updateLayer(pushUndo(m), layer.id,
                                 [x |-> layer.x + dx, y |-> layer.y + dy]))

\* Alt+ArrowUp / Alt+ArrowDown; indices are 0-based as in the source
keyReorder(m, key) ==
  LET idx == getSelectedLayer(m) - 1
      newIdx == IF key = "ArrowUp" THEN Min(idx + 1, Len(m.layers) - 1)
                ELSE Max(idx - 1, 0)
  IN  IF m.selectedLayerId = NoLayer \/ idx = 0 - 1 \/ newIdx = idx THEN m
      ELSE saveState(reorderLayer(pushUndo(m), m.selectedLayerId, newIdx))

keyDelete(m) ==
  LET idx == getSelectedLayer(m) IN
  IF idx = 0 \/ m.layers[idx].locked THEN m
  ELSE saveState(removeLayer(pushUndo(m), m.layers[idx].id))

---------------------------------------------------------------------------
(* PastyPanel: the controls of a layer row.  Opacity is in percent.        *)

\* pushUndo(); updateLayer(layer.id, props); saveState()
panelEdit(m, id, props) == saveState(updateLayer(pushUndo(m), id, props))

eyeClick(m, id) == panelEdit(m, id, [visible |-> ~LayerById(m, id).visible])

lockClick(m, id) == panelEdit(m, id, [locked |-> ~LayerById(m, id).locked])

nameBlur(m, id, newName) ==
  IF newName # "" /\ newName # LayerById(m, id).name
  THEN panelEdit(m, id, [name |-> newName]) ELSE m

blendChange(m, id, mode) == panelEdit(m, id, [blendMode |-> mode])

\* the W, H and R inputs exist in the row of the selected layer only
widthChange(m, id, value) == panelEdit(m, id, [width |-> Max(1, value)])

heightChange(m, id, value) == panelEdit(m, id, [height |-> Max(1, value)])

\* JavaScript % keeps the sign of the dividend
Rem(a, b) == IF a >= 0 THEN a % b ELSE 0 - ((0 - a) % b)

rotationChange(m, id, value) == panelEdit(m, id, [rotation |-> Rem(value, 360)])

opacityInput(m, id, value) == updateLayer(m, id, [opacity |-> value])

opacityChange(m, id, value) == panelEdit(m, id, [opacity |-> value])

deleteClick(m, id) ==
  IF LayerById(m, id).locked THEN m
  ELSE saveState(removeLayer(pushUndo(m), id))

\* _onDrop with _dragLayerId = id and _dropIndex = newIdx
panelDrop(m, id, newIdx) ==
  IF newIdx >= 0 THEN saveState(reorderLayer(pushUndo(m), id, newIdx)) ELSE m

---------------------------------------------------------------------------
(* User events, one handler at a time *)

Points == {<<10, 5>>, <<70, 45>>}
Widths == {0, 120}
Heights == {60}
Rotations == {400}
Opacities == {50}
Names == {"", "Top"}

LiveIds == {layers[i].id : i \in 1..Len(layers)}

\* layers renderSVG draws with pointer events: the visible, unlocked ones
Targets ==
  {layers[i].id : i \in {j \in 1..Len(layers) : layers[j].visible /\ ~layers[j].locked}}

CanvasIdle(c) == c.dragLayerId = NoLayer /\ c.transformMode = "" /\ ~c.isPanning

PointerDowns == {"mousedown", "touchstart"}
PointerMoves == {"mousemove", "touchmove"}
PointerUps == {"mouseup", "touchend"}

\* the gesture in progress: the list before it, whether a move changed it
GestureAfter(op, r) ==
  IF op \in PointerDowns
  THEN IF CanvasIdle(canvas) /\ ~CanvasIdle(r.c)
       THEN [phase |-> 5, atPush |-> layers, postMut |-> <<>>]
       ELSE NoScenario
  ELSE IF op \in PointerMoves /\ scn.phase \in {5, 6}
  THEN IF r.m.layers # layers
       THEN [scn EXCEPT !.phase = 6, !.postMut = r.m.layers] ELSE scn
  ELSE IF op \in PointerUps /\ scn.phase \in {5, 6}
  THEN IF ~CanvasIdle(r.c) THEN scn
       ELSE IF scn.phase = 6 THEN [scn EXCEPT !.phase = 7] ELSE NoScenario
  ELSE IF op = "keyUndo" /\ scn.phase = 7 THEN [scn EXCEPT !.phase = 8]
  ELSE NoScenario

Event(op, id, n, r) ==
  /\ steps < MaxEvents
  /\ steps' = steps + 1
  /\ Becomes(r.m)
  /\ canvas' = r.c
  /\ UNCHANGED txQueue
  /\ lastOp' = [op |-> op, id |-> id, n |-> n]
  /\ scn' = GestureAfter(op, r)

\* an editing key or a panel edit: among the first MaxEdits events
Edit(op, id, n, m) ==
  /\ steps < MaxEdits
  /\ Event(op, id, n, [m |-> m, c |-> canvas])

\* where the pointer is when it is over no layer
Origin == <<10, 5>>

MouseDown ==
  \E target \in Targets \cup {NoLayer}, pt \in Points, altKey \in BOOLEAN, shiftKey \in BOOLEAN :
    /\ target = NoLayer => ~altKey /\ ~shiftKey /\ pt = Origin
    /\ Event("mousedown", target, 0,
             onMouseDown(State, canvas,
                         [target |-> target, clientX |-> pt[1], clientY |-> pt[2],
                          altKey |-> altKey, shiftKey |-> shiftKey]))

MouseMove ==
  \E pt \in Points, buttons \in {0, 1} :
    LET e == [clientX |-> pt[1], clientY |-> pt[2], buttons |-> buttons]
    IN  /\ MoveComputable(State, canvas, e)
        /\ Event("mousemove", 0, buttons, onMouseMove(State, canvas, e))

MouseUp == Event("mouseup", 0, 0, onMouseUp(State, canvas))

KeyDown ==
  \E code \in {"Space", "KeyR"} :
    Event("keydown", 0, 0, [m |-> State, c |-> onKeyDown(canvas, code)])

KeyUp ==
  \E code \in {"Space", "KeyR"} :
    Event("keyup", 0, 0, [m |-> State, c |-> onKeyUp(canvas, code)])

TouchStart ==
  \E touches \in {1, 2}, target \in Targets \cup {NoLayer}, pt \in Points :
    /\ (touches = 2 \/ target = NoLayer) => pt = Origin
    /\ Event("touchstart", target, touches,
             onTouchStart(State, canvas,
                          [touches |-> touches, target |-> target,
                           clientX |-> pt[1], clientY |-> pt[2]]))

TouchMove ==
  \E touches \in {1, 2}, pt \in Points :
    Event("touchmove", 0, touches,
          onTouchMove(State, canvas,
                      [touches |-> touches, clientX |-> pt[1], clientY |-> pt[2]]))

TouchEnd ==
  \E touches \in {0, 1} : Event("touchend", 0, touches, onTouchEnd(State, canvas, touches))

KeyUndo == Event("keyUndo", 0, 0, [m |-> keyUndo(State), c |-> canvas])

KeyRedo == Event("keyRedo", 0, 0, [m |-> keyRedo(State), c |-> canvas])

KeyNudge ==
  \E key \in {"ArrowUp", "ArrowDown", "ArrowLeft", "ArrowRight"}, shiftKey \in BOOLEAN :
    Edit("keyNudge", selectedLayerId, 0, keyNudge(State, key, shiftKey))

KeyReorder ==
  \E key \in {"ArrowUp", "ArrowDown"} :
    Edit("keyReorder", selectedLayerId, 0, keyReorder(State, key))

KeyDelete == Edit("keyDelete", selectedLayerId, 0, keyDelete(State))

RowClick == \E id \in LiveIds : Edit("rowClick", id, 0, selectLayer(State, id))

EyeClick == \E id \in LiveIds : Edit("eyeClick", id, 0, eyeClick(State, id))

LockClick == \E id \in LiveIds : Edit("lockClick", id, 0, lockClick(State, id))

NameBlur ==
  \E id \in LiveIds, newName \in Names :
    Edit("nameBlur", id, 0, nameBlur(State, id, newName))

BlendChange ==
  \E id \in LiveIds : Edit("blendChange", id, 0, blendChange(State, id, "multiply"))

WidthChange ==
  \E value \in Widths :
    /\ selectedLayerId \in LiveIds
    /\ Edit("widthChange", selectedLayerId, value,
             widthChange(State, selectedLayerId, value))

HeightChange ==
  \E value \in Heights :
    /\ selectedLayerId \in LiveIds
    /\ Edit("heightChange", selectedLayerId, value,
             heightChange(State, selectedLayerId, value))

RotationChange ==
  \E value \in Rotations :
    /\ selectedLayerId \in LiveIds
    /\ Edit("rotationChange", selectedLayerId, value,
             rotationChange(State, selectedLayerId, value))

OpacityInput ==
  \E id \in LiveIds, value \in Opacities :
    Edit("opacityInput", id, value, opacityInput(State, id, value))

OpacityChange ==
  \E id \in LiveIds, value \in Opacities :
    Edit("opacityChange", id, value, opacityChange(State, id, value))

DeleteClick == \E id \in LiveIds : Edit("deleteClick", id, 0, deleteClick(State, id))

PanelDrop ==
  \E id \in LiveIds, newIdx \in 0..(Len(layers) - 1) :
    Edit("panelDrop", id, newIdx, panelDrop(State, id, newIdx))

\* the canvas, the keyboard and the layer panel
NextUI ==
  \/ MouseDown
  \/ MouseMove
  \/ MouseUp
  \/ KeyDown
  \/ KeyUp
  \/ TouchStart
  \/ TouchMove
  \/ TouchEnd
  \/ KeyUndo
  \/ KeyRedo
  \/ KeyNudge
  \/ KeyReorder
  \/ KeyDelete
  \/ RowClick
  \/ EyeClick
  \/ LockClick
  \/ NameBlur
  \/ BlendChange
  \/ WidthChange
  \/ HeightChange
  \/ RotationChange
  \/ OpacityInput
  \/ OpacityChange
  \/ DeleteClick
  \/ PanelDrop

SpecUI == Init /\ [][NextUI]_vars

\* the canvas alone, with undo and redo from the keyboard
NextCanvas ==
  \/ MouseDown
  \/ MouseMove
  \/ MouseUp
  \/ KeyDown
  \/ KeyUp
  \/ TouchStart
  \/ TouchMove
  \/ TouchEnd
  \/ KeyUndo
  \/ KeyRedo

SpecCanvas == Init /\ [][NextCanvas]_vars

\* where the wheel turns: the corners and the middle of the svg element
WheelPoints == {<<0, 0>>, <<400, 300>>, <<800, 600>>}

\* viewboxes an earlier session saved: the default, the two ends of the zoom
\* range, one step inside each end, and one beyond the range
SavedViewBoxes ==
  {DefaultViewBox,
   [x |-> 0, y |-> 0, w |-> 8000, h |-> 6000],
   [x |-> 0, y |-> 0, w |-> 7600, h |-> 5700],
   [x |-> 0, y |-> 0, w |-> 80, h |-> 60],
   [x |-> 0, y |-> 0, w |-> 88, h |-> 66],
   [x |-> 0, y |-> 0, w |-> 16000, h |-> 12000]}

Wheel ==
  \E pt \in WheelPoints, deltaY \in {0 - 100, 100} :
    LET e == [clientX |-> pt[1], clientY |-> pt[2], deltaY |-> deltaY]
        m == onWheel(State, e)
    IN  /\ WheelExact(State, e)
        /\ steps < MaxEvents
        /\ steps' = steps + 1
        /\ Becomes(m)
        /\ UNCHANGED <<canvas, txQueue>>
        /\ lastOp' = [op |-> "wheel", id |-> 0, n |-> deltaY,
                      clientX |-> pt[1], clientY |-> pt[2]]
        /\ scn' = NoScenario

ResetZoom == Event("resetZoom", 0, 0, [m |-> resetZoom(State), c |-> canvas])

InitWheel ==
  \E ls \in LoadedLayers, vb \in SavedViewBoxes :
    /\ layers = ls
    /\ viewBox = vb
    /\ zoomLevel = [num |-> InitialW, den |-> InitialW]
    /\ selectedLayerId = NoLayer
    /\ undoStack = <<>>
    /\ redoStack = <<>>
    /\ imageStore = [i \in ImageIdsOf(ls) |-> DataUrl]
    /\ imageCache = [i \in ImageIdsOf(ls) |-> DataUrl]
    /\ localStorage = <<>>
    /\ events = <<>>
    /\ thrown = ""
    /\ canvas = IdleCanvas
    /\ txQueue = <<>>
    /\ lastOp = [op |-> "loadState", id |-> 0, n |-> 0]
    /\ scn = NoScenario
    /\ steps = 0

\* zooming with the wheel and the Fit button
NextWheel ==
  \/ Wheel
  \/ ResetZoom

SpecWheel == InitWheel /\ [][NextWheel]_vars

\* a saved document with one layer away from the origin
DragLayers == <<[StoredLayer(1, 1, 1) EXCEPT !.x = 10, !.y = 10]>>

DragPoints == {<<20, 20>>, <<25, 15>>, <<60, 40>>}

\* a pointer event of a drag: the gesture in progress also keeps the plane
\* point the pointer was at when it went down
DragEvent(op, id, n, e, r) ==
  LET g == GestureAfter(op, r)
      pt == clientToSvg(State, e.clientX, e.clientY)
  IN  /\ steps < MaxEvents
      /\ steps' = steps + 1
      /\ Becomes(r.m)
      /\ canvas' = r.c
      /\ UNCHANGED txQueue
      /\ lastOp' = [op |-> op, id |-> id, n |-> n,
                    clientX |-> e.clientX, clientY |-> e.clientY]
      /\ scn' = IF op \in PointerDowns /\ g.phase = 5
                THEN Assign(g, [downX |-> pt.x, downY |-> pt.y])
                ELSE g

DragDown ==
  \E target \in Targets, pt \in DragPoints, altKey \in BOOLEAN :
    LET e == [target |-> target, clientX |-> pt[1], clientY |-> pt[2],
              altKey |-> altKey, shiftKey |-> FALSE]
    IN  DragEvent("mousedown", target, 0, e, onMouseDown(State, canvas, e))

DragMove ==
  \E pt \in DragPoints :
    LET e == [clientX |-> pt[1], clientY |-> pt[2], buttons |-> 1]
    IN  DragEvent("mousemove", 0, 1, e, onMouseMove(State, canvas, e))

DragUp ==
  \E pt \in DragPoints :
    DragEvent("mouseup", 0, 0, [clientX |-> pt[1], clientY |-> pt[2]],
              onMouseUp(State, canvas))

DragTouchStart ==
  \E target \in Targets, pt \in DragPoints :
    LET e == [touches |-> 1, target |-> target, clientX |-> pt[1], clientY |-> pt[2]]
    IN  DragEvent("touchstart", target, 1, e, onTouchStart(State, canvas, e))

DragTouchMove ==
  \E touches \in {1, 2}, pt \in DragPoints :
    LET e == [touches |-> touches, clientX |-> pt[1], clientY |-> pt[2]]
    IN  DragEvent("touchmove", 0, touches, e, onTouchMove(State, canvas, e))

DragTouchEnd ==
  \E touches \in {0, 1}, pt \in DragPoints :
    DragEvent("touchend", 0, touches, [clientX |-> pt[1], clientY |-> pt[2]],
              onTouchEnd(State, canvas, touches))

InitDrag == \E sel \in {NoLayer, 1} : InitState(DragLayers, sel)

\* dragging a layer with the mouse or one finger
NextDrag ==
  \/ DragDown
  \/ DragMove
  \/ DragUp
  \/ DragTouchStart
  \/ DragTouchMove
  \/ DragTouchEnd

SpecDrag == InitDrag /\ [][NextDrag]_vars

\* a key pressed or released while the pointer is down: the gesture in
\* progress goes on
DragKey ==
  \E code \in {"Space", "KeyR"}, down \in BOOLEAN :
    /\ steps < MaxEvents
    /\ steps' = steps + 1
    /\ Becomes(State)
    /\ canvas' = IF down THEN onKeyDown(canvas, code) ELSE onKeyUp(canvas, code)
    /\ UNCHANGED <<txQueue, scn>>
    /\ lastOp' = [op |-> IF down THEN "keydown" ELSE "keyup", id |-> 0, n |-> 0]

\* the same gestures with the keyboard
NextDragKeys ==
  \/ DragDown
  \/ DragMove
  \/ DragUp
  \/ DragKey

SpecDragKeys == InitDrag /\ [][NextDragKeys]_vars

\* an earlier session may leave an image no layer refers to; loadState
\* fills the cache with every stored image
InitAsync ==
  \E ls \in LoadedLayers : \E orphans \in SUBSET (ImageIds \ ImageIdsOf(ls)) :
    /\ layers = ls
    /\ viewBox = DefaultViewBox
    /\ zoomLevel = [num |-> InitialW, den |-> InitialW]
    /\ selectedLayerId = NoLayer
    /\ undoStack = <<>>
    /\ redoStack = <<>>
    /\ imageStore = [i \in ImageIdsOf(ls) \cup orphans |-> DataUrl]
    /\ imageCache = [i \in ImageIdsOf(ls) \cup orphans |-> DataUrl]
    /\ localStorage = <<>>
    /\ events = <<>>
    /\ thrown = ""
    /\ canvas = IdleCanvas
    /\ txQueue = <<>>
    /\ lastOp = [op |-> "loadState", id |-> 0, n |-> 0]
    /\ scn = NoScenario
    /\ steps = 0

\* ingestion and garbage collection interleaved with the history operations
NextAsync ==
  \/ PasteBegin
  \/ GcBegin
  \/ TxComplete
  \/ PushUndo
  \/ Undo
  \/ Redo

SpecAsync == InitAsync /\ [][NextAsync]_vars

\* the same with put transactions that fail
NextStorage ==
  \/ PasteBegin
  \/ PasteBeginError
  \/ GcBegin
  \/ TxComplete
  \/ PushUndo
  \/ Undo
  \/ Redo

SpecStorage == InitAsync /\ [][NextStorage]_vars

---------------------------------------------------------------------------
(* Persistence: the 'pasty-state' item of localStorage across page loads *)

\* texts of the item that saveState did not write
Unparsable == [unparsable |-> TRUE]
EmptyText == [empty |-> TRUE]
JSONnull == NullDoc

\* the module variables as their declarations initialise them
FreshModule(m) ==
  [m EXCEPT !.layers = <<>>, !.viewBox = DefaultViewBox,
            !.zoomLevel = [num |-> 1, den |-> 1],
            !.selectedLayerId = NoLayer, !.undoStack = <<>>,
            !.redoStack = <<>>, !.imageCache = EmptyMap]

\* the catch block of loadState
startFresh(m) ==
  [m EXCEPT !.layers = <<>>, !.viewBox = DefaultViewBox,
            !.selectedLayerId = NoLayer, !.undoStack = <<>>,
            !.redoStack = <<>>]

\* parsed.field || fallback
OrElse(parsed, field, fallback) ==
  IF field \in DOMAIN parsed THEN parsed[field] ELSE fallback

\* step 2 of loadState: every stored image enters the cache
prefillCache(m) ==
  [m EXCEPT !.imageCache =
     [i \in DOMAIN m.imageCache \cup DOMAIN m.imageStore |->
        IF i \in DOMAIN m.imageStore THEN m.imageStore[i]
        ELSE m.imageCache[i]]]

\* step 1 of loadState: JSON.parse and the assignments, or the catch block
restoreMetadata(m) ==
  IF m.localStorage = <<>> \/ m.localStorage[1] = EmptyText THEN m
  ELSE IF m.localStorage[1] \in {Unparsable, JSONnull} THEN startFresh(m)
  ELSE LET parsed == m.localStorage[1]
       IN  [m EXCEPT
              !.layers = IF "layers" \in DOMAIN parsed
                         THEN JSONparse(parsed.layers) ELSE <<>>,
              !.viewBox = OrElse(parsed, "viewBox", DefaultViewBox),
              !.selectedLayerId = OrElse(parsed, "selectedLayerId", NoLayer),
              !.undoStack = OrElse(parsed, "undoStack", <<>>),
              !.redoStack = OrElse(parsed, "redoStack", <<>>)]

\* loadState without its first try/catch
loadState_noCatch(m) ==
  IF m.localStorage # <<>> /\ m.localStorage[1] \in {Unparsable, JSONnull}
  THEN [m EXCEPT !.thrown = "loadState rejected"]
  ELSE prefillCache(restoreMetadata(m))

loadState(m) == prefillCache(restoreMetadata(m))

\* PastyApp.connectedCallback on a newly loaded page
connectedCallback(m) ==
  dispatch(loadState(FreshModule(m)), "state-changed", NoDetail)

ZoomedViewBox == [x |-> 0, y |-> 0, w |-> 400, h |-> 300]

\* an item written by saveState in an earlier session
SavedItem ==
  [layers |-> JSONstringify(<<StoredLayer(1, 1, 1)>>),
   viewBox |-> ZoomedViewBox, selectedLayerId |-> 1,
   undoStack |-> <<JSONstringify(<<>>)>>,
   redoStack |-> <<JSONstringify(<<StoredLayer(1, 1, 1), StoredLayer(2, 2, 2)>>)>>]

StoredItems ==
  {<<>>, <<EmptyText>>, <<Unparsable>>, <<JSONnull>>, <<SavedItem>>}

\* n: whether the page is reloaded right after a saveState
Reload ==
  Call("reload", 0, IF lastOp.op = "saveState" THEN 1 ELSE 0,
       connectedCallback(State))

\* wheel zoom as the store sees it
SetViewBoxZoomed ==
  \E vb \in {DefaultViewBox, ZoomedViewBox} :
    Call("setViewBox", 0, vb.w, setViewBox(State, vb))

\* the script has run, loadState has not
InitReload ==
  \E item \in StoredItems :
    /\ layers = <<>>
    /\ viewBox = DefaultViewBox
    /\ zoomLevel = [num |-> 1, den |-> 1]
    /\ selectedLayerId = NoLayer
    /\ undoStack = <<>>
    /\ redoStack = <<>>
    /\ imageStore = [i \in 1..2 |-> DataUrl]
    /\ imageCache = EmptyMap
    /\ localStorage = item
    /\ events = <<>>
    /\ thrown = ""
    /\ canvas = IdleCanvas
    /\ txQueue = <<>>
    /\ lastOp = [op |-> "module", id |-> 0, n |-> 0]
    /\ scn = NoScenario
    /\ steps = 0

NextReload ==
  \/ Reload
  \/ SaveState
  \/ AddLayer
  \/ UpdateLayer
  \/ SelectLayer
  \/ PushUndo
  \/ Undo
  \/ SetViewBoxZoomed

SpecReload == InitReload /\ [][NextReload]_vars

---------------------------------------------------------------------------
(* Read accessors and what a caller can reach through their results *)

\* getLayers() is [..._layers]: a new array holding the live records, so a
\* caller changing the array (push, splice, sort) leaves the store alone
changeReturnedArray(m) == m

\* a caller assigning fields of the i-th record of getLayers(): an
\* assignment to the live record itself, with no notification
assignReturnedLayer(m, i, props) == [m EXCEPT !.layers[i] = Assign(@, props)]

\* getSelectedLayer() is _layers.find(...) || null: the live record
assignSelectedLayer(m, props) ==
  IF FindIndex(m.layers, m.selectedLayerId) = 0 THEN m
  ELSE assignReturnedLayer(m, FindIndex(m.layers, m.selectedLayerId), props)

\* getViewBox() is { ..._viewBox }: a caller assigning its fields leaves
\* the store alone
assignReturnedViewBox(m, props) == m

ChangeReturnedArray == Call("changeReturnedArray", 0, 0, changeReturnedArray(State))

AssignReturnedLayer ==
  \E i \in 1..Len(layers), props \in PropsSet :
    Call("assignReturnedLayer", layers[i].id, i,
         assignReturnedLayer(State, i, props))

AssignSelectedLayer ==
  \E props \in PropsSet :
    Call("assignSelectedLayer", selectedLayerId, 0,
         assignSelectedLayer(State, props))

AssignReturnedViewBox ==
  \E vb \in ViewBoxes :
    Call("assignReturnedViewBox", 0, 0, assignReturnedViewBox(State, vb))

NextAccessors ==
  \/ ChangeReturnedArray
  \/ AssignReturnedLayer
  \/ AssignSelectedLayer
  \/ AssignReturnedViewBox
  \/ AddLayer
  \/ SelectLayer
  \/ SetViewBox
  \/ PushUndo
  \/ Undo

SpecAccessors == Init /\ [][NextAccessors]_vars

---------------------------------------------------------------------------
(* Documents a user can pick for import: whatever the file holds *)

\* a well-formed document whose two layers carry the same id
DuplicateIdDoc ==
  [version |-> 1,
   layers |-> [array |-> TRUE,
               items |-> <<Assign(DocLayer(1, 1), [imageData |-> DataUrl]),
                           Assign(DocLayer(1, 2), [imageData |-> DataUrl])>>]]

PickedDocs == {Docs[4], Docs[5], DuplicateIdDoc}

\* n: the number of layers of the document
ImportDocument ==
  \E doc \in PickedDocs :
    Call("importProject", 0, Len(doc.layers.items), importProject(State, doc))

NextIds ==
  \/ PushUndo
  \/ Undo
  \/ Redo
  \/ AddLayer
  \/ RemoveLayer
  \/ UpdateLayer
  \/ ReorderLayer
  \/ ImportDocument

SpecIds == Init /\ [][NextIds]_vars

---------------------------------------------------------------------------
(* The command keys of PastyApp on a loaded model with history *)

\* lists loadState can restore: empty, one layer, one free and one locked
KeyLayers ==
  { <<>>,
    <<StoredLayer(1, 1, 1)>>,
    <<StoredLayer(1, 1, 1), Assign(StoredLayer(2, 2, 2), [locked |-> TRUE])>>,
    <<StoredLayer(1, 1, 1), StoredLayer(2, 2, 2), StoredLayer(3, 3, 3)>> }

InitKeys ==
  \E ls \in KeyLayers :
    \E sel \in {NoLayer} \cup {ls[i].id : i \in 1..Len(ls)} :
      \E redone \in {<<>>, <<JSONstringify(<<StoredLayer(1, 1, 1)>>)>>} :
        /\ layers = ls
        /\ viewBox = DefaultViewBox
        /\ zoomLevel = [num |-> 1, den |-> 1]
        /\ selectedLayerId = sel
        /\ undoStack = <<>>
        /\ redoStack = redone
        /\ imageStore = [i \in ImageIdsOf(ls) \cup {1} |-> DataUrl]
        /\ imageCache = [i \in ImageIdsOf(ls) \cup {1} |-> DataUrl]
        /\ localStorage = <<>>
        /\ events = <<>>
        /\ thrown = ""
        /\ canvas = IdleCanvas
        /\ txQueue = <<>>
        /\ lastOp = [op |-> "loadState", id |-> 0, n |-> 0]
        /\ scn = NoScenario
        /\ steps = 0

NextKeys ==
  \/ KeyNudge
  \/ KeyReorder
  \/ KeyDelete
  \/ KeyUndo
  \/ KeyRedo
  \/ SelectLayer

SpecKeys == InitKeys /\ [][NextKeys]_vars

---------------------------------------------------------------------------
(* Mouse buttons pressed over any layer element, with the event recorded *)

\* the event carries the element under the pointer: any layer of the list
\* (a locked one when the rendering is not the current one) or none
Press ==
  \E target \in LiveIds \cup {NoLayer}, pt \in Points,
     altKey \in BOOLEAN, shiftKey \in BOOLEAN :
    LET e == [target |-> target, clientX |-> pt[1], clientY |-> pt[2],
              altKey |-> altKey, shiftKey |-> shiftKey]
        r == onMouseDown(State, canvas, e)
    IN  /\ steps < MaxEvents
        /\ steps' = steps + 1
        /\ Becomes(r.m)
        /\ canvas' = r.c
        /\ UNCHANGED txQueue
        /\ lastOp' = [op |-> "mousedown", id |-> target, n |-> 0, e |-> e]
        /\ scn' = NoScenario

NextPress ==
  \/ Press
  \/ MouseUp
  \/ KeyDown
  \/ KeyUp
  \/ SetViewBox

SpecPress == InitKeys /\ [][NextPress]_vars

---------------------------------------------------------------------------
(* Mouse gestures with every event recorded, keys pressed at any time *)

\* a layer of 100 by 50 and a small one of 30 by 20
GestureLayers ==
  <<StoredLayer(1, 1, 1),
    Assign(StoredLayer(2, 2, 2), [x |-> 20, y |-> 10, width |-> 30, height |-> 20])>>

GesturePoints == {<<10, 5>>, <<11, 5>>, <<70, 45>>}

GesturePress ==
  \E target \in Targets, pt \in GesturePoints,
     altKey \in BOOLEAN, shiftKey \in BOOLEAN :
    LET e == [target |-> target, clientX |-> pt[1], clientY |-> pt[2],
              altKey |-> altKey, shiftKey |-> shiftKey]
        r == onMouseDown(State, canvas, e)
    IN  /\ shiftKey => altKey
        /\ steps < MaxEvents
        /\ steps' = steps + 1
        /\ Becomes(r.m)
        /\ canvas' = r.c
        /\ UNCHANGED txQueue
        /\ lastOp' = [op |-> "mousedown", id |-> target, n |-> 0, e |-> e]
        /\ scn' = NoScenario

\* a move with the button held
GestureMove ==
  \E pt \in GesturePoints :
    LET e == [clientX |-> pt[1], clientY |-> pt[2], buttons |-> 1]
        r == onMouseMove(State, canvas, e)
    IN  /\ MoveComputable(State, canvas, e)
        /\ steps < MaxEvents
        /\ steps' = steps + 1
        /\ Becomes(r.m)
        /\ canvas' = r.c
        /\ UNCHANGED txQueue
        /\ lastOp' = [op |-> "mousemove", id |-> 0, n |-> 1, e |-> e]
        /\ scn' = NoScenario

\* the viewbox as loaded or as a wheel zoom left it
GestureViewBoxes == {DefaultViewBox, [x |-> 40, y |-> 30, w |-> 1600, h |-> 1200]}

InitGesture ==
  \E sel \in {NoLayer, 2}, vb \in GestureViewBoxes :
    /\ layers = GestureLayers
    /\ viewBox = vb
    /\ zoomLevel = [num |-> InitialW, den |-> vb.w]
    /\ selectedLayerId = sel
    /\ undoStack = <<>>
    /\ redoStack = <<>>
    /\ imageStore = [i \in ImageIdsOf(GestureLayers) |-> DataUrl]
    /\ imageCache = [i \in ImageIdsOf(GestureLayers) |-> DataUrl]
    /\ localStorage = <<>>
    /\ events = <<>>
    /\ thrown = ""
    /\ canvas = IdleCanvas
    /\ txQueue = <<>>
    /\ lastOp = [op |-> "loadState", id |-> 0, n |-> 0]
    /\ scn = NoScenario
    /\ steps = 0

NextGesture ==
  \/ GesturePress
  \/ GestureMove
  \/ MouseUp
  \/ KeyDown
  \/ KeyUp

SpecGesture == InitGesture /\ [][NextGesture]_vars

---------------------------------------------------------------------------
(* Properties *)

EventTypes(evs) == [i \in 1..Len(evs) |-> evs[i].type]

LayerSet(ls) == {ls[i] : i \in 1..Len(ls)}
Without(ls, id) == SelectSeq(ls, LAMBDA l : l.id # id)
SnapshotImageIds(stack) ==
  UNION {{JSONparse(stack[i])[j].imageId : j \in 1..Len(stack[i])} : i \in 1..Len(stack)}

\* image ids some live layer, undo snapshot or redo snapshot refers to
ReachableImageIds ==
  {layers[i].imageId : i \in 1..Len(layers)}
    \cup SnapshotImageIds(undoStack) \cup SnapshotImageIds(redoStack)

\* C1: after pushUndo() and a mutation, undo() leaves the layer list equal
\* to the list pushUndo() saw, and undo() then redo() leaves it equal to the
\* list the mutation produced.
C1_UndoRedoRestores ==
  /\ scn.phase = 3 => layers = scn.atPush
  /\ scn.phase = 4 => layers = scn.postMut

C1_Witness ==
  /\ scn.phase = 4
  /\ scn.atPush # scn.postMut
  /\ scn.atPush # <<>>
  /\ Len(redoStack) = 0

\* C10: reorderLayer(id, n) of a known id leaves the layer at index n clamped
\* to [0, length - 1], keeps the length and the set of layers, and keeps the
\* other layers in their order.
C10_ReorderClamps ==
  [][(lastOp'.op = "reorderLayer" /\ FindIndex(layers, lastOp'.id) # 0) =>
       LET id == lastOp'.id
           n == lastOp'.n
           last == Len(layers) - 1
       IN  /\ Len(layers') = Len(layers)
           /\ FindIndex(layers', id) - 1 = (IF n < 0 THEN 0 ELSE IF n > last THEN last ELSE n)
           /\ LayerSet(layers') = LayerSet(layers)
           /\ Without(layers', id) = Without(layers, id)]_vars

C10_Witness ==
  /\ lastOp.op = "reorderLayer"
  /\ lastOp.n > Len(layers) - 1
  /\ Len(layers) >= 2
  /\ layers[Len(layers)].id = lastOp.id
  /\ Len(undoStack) > 0

\* C3: run with nothing else in flight, collectGarbageImages() deletes from
\* the store (and the cache) exactly the stored image ids that no live layer,
\* no undo snapshot and no redo snapshot refers to.
C3_CollectExact ==
  [][lastOp'.op = "collectGarbageImages" =>
       /\ DOMAIN imageStore' = DOMAIN imageStore \cap ReachableImageIds
       /\ \A id \in DOMAIN imageStore' : imageStore'[id] = imageStore[id]
       /\ DOMAIN imageCache' =
            DOMAIN imageCache \ (DOMAIN imageStore \ ReachableImageIds)
       /\ UNCHANGED <<layers, undoStack, redoStack>>]_vars

\* an image was swept, and one that only a snapshot refers to was kept
C3_Witness ==
  /\ lastOp.op = "collectGarbageImages"
  /\ lastOp.n > Cardinality(DOMAIN imageStore)
  /\ \E id \in DOMAIN imageStore :
       /\ id \notin {layers[i].imageId : i \in 1..Len(layers)}
       /\ id \in SnapshotImageIds(undoStack)

\* doc absent, version missing, or layers not a list
Malformed(doc) ==
  \/ "null" \in DOMAIN doc
  \/ "version" \notin DOMAIN doc
  \/ "layers" \notin DOMAIN doc
  \/ ~doc.layers.array

\* C7: importProject of a malformed document throws and changes nothing, and
\* dispatches no event.
C7_ImportRejects ==
  [][(lastOp'.op = "importProject" /\ Malformed(Docs[lastOp'.n])) =>
       /\ thrown' # ""
       /\ events' = <<>>
       /\ UNCHANGED <<layers, selectedLayerId, viewBox, zoomLevel, undoStack,
                      redoStack, imageCache, imageStore, localStorage>>]_vars

C7_Witness ==
  /\ lastOp.op = "importProject"
  /\ thrown # ""
  /\ Len(layers) > 0
  /\ Len(undoStack) > 0
  /\ selectedLayerId # NoLayer

\* the layers of a document with the inlined payload removed
Stripped(items) == [i \in 1..Len(items) |-> DeleteField(items[i], "imageData")]

\* C8: after importProject succeeds the live list is the document's layers
\* without the inlined payload, both stacks are empty, each payload is stored
\* under its layer's imageId, viewbox and selection are the document's (or
\* the defaults), the metadata is saved and one event was dispatched.
C8_ImportResets ==
  [][(lastOp'.op = "importProject" /\ thrown' = "") =>
       LET doc == Docs[lastOp'.n]
           items == doc.layers.items
       IN  /\ layers' = Stripped(items)
           /\ undoStack' = <<>>
           /\ redoStack' = <<>>
           /\ \A i \in 1..Len(items) :
                ("imageData" \in DOMAIN items[i] /\ items[i].imageData # EmptyData) =>
                  /\ items[i].imageId \in DOMAIN imageStore'
                  /\ imageStore'[items[i].imageId] = items[i].imageData
           /\ viewBox' = (IF "viewBox" \in DOMAIN doc THEN doc.viewBox ELSE DefaultViewBox)
           /\ selectedLayerId' =
                (IF "selectedLayerId" \in DOMAIN doc THEN doc.selectedLayerId ELSE NoLayer)
           /\ localStorage' =
                <<[layers |-> JSONstringify(layers'), viewBox |-> viewBox',
                   selectedLayerId |-> selectedLayerId',
                   undoStack |-> <<>>, redoStack |-> <<>>]>>
           /\ EventTypes(events') = <<"state-changed">>]_vars

\* C9: importProject(exportProject()) leaves layers, viewbox and selection
\* as they were.
C9_RoundTrip ==
  [][lastOp'.op = "exportImport" =>
       /\ layers' = layers
       /\ viewBox' = viewBox
       /\ selectedLayerId' = selectedLayerId]_vars

\* C2: when a drag, scale or rotate gesture whose moves changed the target
\* layer ends, the checkpoint it records holds the layer list as it was
\* before the gesture, and undo() right after the pointer-up restores that
\* list.
C2_GestureCheckpoint ==
  /\ scn.phase = 7 =>
       /\ undoStack # <<>>
       /\ JSONparse(undoStack[Len(undoStack)]) = scn.atPush
  /\ scn.phase = 8 => layers = scn.atPush

SameGeometry(a, b) ==
  /\ a.x = b.x
  /\ a.y = b.y
  /\ a.width = b.width
  /\ a.height = b.height
  /\ RotationOf(a) = RotationOf(b)

\* scale, rotate and pan are gestures of the mouse alone
MouseGesture(c) == c.transformMode # "" \/ c.isPanning

\* C5: after a pointer-up (a mouse-up, or a touch-end that leaves no touch,
\* no mouse gesture being in progress) the canvas is idle (no drag target,
\* no transform mode, not panning), and a pointer-move with no button held
\* that follows a mouse-up changes neither the layers nor the viewport.
C5_IdleAfterPointerUp ==
  [][ /\ lastOp'.op = "mouseup" => CanvasIdle(canvas')
      /\ (lastOp'.op = "touchend" /\ lastOp'.n = 0 /\ ~MouseGesture(canvas))
          => CanvasIdle(canvas')
      /\ (lastOp.op = "mouseup" /\ lastOp'.op = "mousemove" /\ lastOp'.n = 0)
          => (layers' = layers /\ viewBox' = viewBox) ]_vars

GestureOps == PointerDowns \cup PointerMoves \cup PointerUps \cup {"keydown", "keyup"}
CommandOps == {"keyNudge", "keyReorder", "keyDelete"}
PanelOps ==
  {"rowClick", "eyeClick", "lockClick", "nameBlur", "blendChange", "widthChange",
   "heightChange", "rotationChange", "opacityInput", "opacityChange",
   "deleteClick", "panelDrop"}

\* C6: a gesture, an editing key or a panel edit leaves every locked layer in
\* the list with its x, y, width, height and rotation; the eye, the opacity
\* slider and the blend select still act on a locked layer.
C6_LockedUntouched ==
  [][ /\ lastOp'.op \in GestureOps \cup CommandOps \cup PanelOps =>
           \A i \in 1..Len(layers) :
             layers[i].locked =>
               \E j \in 1..Len(layers') :
                 layers'[j].id = layers[i].id /\ SameGeometry(layers'[j], layers[i])
      /\ \A i \in 1..Len(layers) :
           (layers[i].locked /\ lastOp'.id = layers[i].id) =>
             /\ lastOp'.op = "eyeClick" => layers'[i].visible = ~layers[i].visible
             /\ lastOp'.op = "opacityChange" => layers'[i].opacity = lastOp'.n
             /\ lastOp'.op = "blendChange" => layers'[i].blendMode = "multiply" ]_vars

\* C4: whenever no paste and no collection is in flight, every image id a
\* live layer, an undo snapshot or a redo snapshot refers to is in the image
\* store and in the cache.
C4_CollectSafe ==
  txQueue = <<>> =>
    /\ ReachableImageIds \subseteq DOMAIN imageStore
    /\ ReachableImageIds \subseteq DOMAIN imageCache

\* C11: removeLayer(id) of the selected layer selects the layer that followed
\* it, or the one before it when it was the last, or none when it was the
\* only one; removing another layer leaves the selection as it was.
C11_RemoveSelection ==
  [][lastOp'.op = "removeLayer" =>
       LET id == lastOp'.id
           idx == FindIndex(layers, id)
       IN  IF idx # 0 /\ selectedLayerId = id
           THEN selectedLayerId' =
                  (IF Len(layers) = 1 THEN NoLayer
                   ELSE IF idx < Len(layers) THEN layers[idx + 1].id
                   ELSE layers[idx - 1].id)
           ELSE selectedLayerId' = selectedLayerId]_vars

\* the selected middle layer of three was removed
C11_Witness ==
  /\ lastOp.op = "removeLayer"
  /\ lastOp.n = 2
  /\ Len(layers) = 2
  /\ selectedLayerId = layers[2].id

\* C12: undo() with an empty undo stack and redo() with an empty redo stack
\* change neither the layers, the stacks, the selection nor the viewbox, and
\* dispatch no event.
C12_EmptyHistoryNoOp ==
  [][((lastOp'.op = "undo" /\ undoStack = <<>>)
        \/ (lastOp'.op = "redo" /\ redoStack = <<>>)) =>
       /\ UNCHANGED <<layers, undoStack, redoStack, selectedLayerId, viewBox>>
       /\ events' = <<>>]_vars

\* undo() was called on an empty undo stack with layers present
C12_Witness ==
  /\ lastOp.op = "undo"
  /\ undoStack = <<>>
  /\ redoStack = <<>>
  /\ Len(layers) > 0

\* C13: pushUndo() leaves the redo stack empty, a redo() right after it
\* restores nothing, and the redo stack only ever grows by undo() pushing the
\* list that was live, so no snapshot discarded by a checkpoint comes back.
C13_LinearHistory ==
  [][/\ lastOp'.op = "pushUndo" => redoStack' = <<>>
     /\ (lastOp.op = "pushUndo" /\ lastOp'.op = "redo") => layers' = layers
     /\ Len(redoStack') > Len(redoStack) =>
          /\ lastOp'.op = "undo"
          /\ redoStack' = Append(redoStack, JSONstringify(layers))]_vars

\* a checkpoint discarded a redo snapshot
C13_Witness ==
  /\ lastOp.op = "pushUndo"
  /\ lastOp.n > 0
  /\ redoStack = <<>>

IdsOf(ls) == {ls[i].id : i \in 1..Len(ls)}

\* C14: updateLayer, removeLayer and reorderLayer with an id no live layer
\* has throw nothing, dispatch nothing and leave the layers, their order, the
\* selection and both stacks as they were.
C14_UnknownIdNoOp ==
  [][(lastOp'.op \in {"updateLayer", "removeLayer", "reorderLayer"}
        /\ lastOp'.id \notin IdsOf(layers)) =>
       /\ thrown' = ""
       /\ events' = <<>>
       /\ UNCHANGED <<layers, selectedLayerId, undoStack, redoStack>>]_vars

\* reorderLayer was called with an unknown id on a list of two or more
C14_Witness ==
  /\ lastOp.op = "reorderLayer"
  /\ lastOp.id \notin IdsOf(layers)
  /\ Len(layers) >= 2

\* the operation of the step to come mutates the state
Successful(op, id) ==
  \/ op = "addLayer"
  \/ op \in {"removeLayer", "updateLayer", "reorderLayer"} /\ id \in IdsOf(layers)
  \/ op = "undo" /\ undoStack # <<>>
  \/ op = "redo" /\ redoStack # <<>>

\* C15: a successful addLayer, removeLayer, updateLayer, reorderLayer, undo
\* or redo dispatches exactly one state-changed event, whose listeners see
\* the layers and the selection the operation leaves; selectLayer dispatches
\* exactly one layer-selected event carrying the id, and no state-changed.
C15_OneNotification ==
  [][/\ Successful(lastOp'.op, lastOp'.id) =>
          /\ Len(events') = 1
          /\ events'[1].type = "state-changed"
          /\ events'[1].seen.layers = layers'
          /\ events'[1].seen.selectedLayerId = selectedLayerId'
     /\ lastOp'.op = "selectLayer" =>
          /\ Len(events') = 1
          /\ events'[1].type = "layer-selected"
          /\ events'[1].detail.id = lastOp'.id
          /\ events'[1].seen.selectedLayerId = lastOp'.id]_vars

\* an update of a live layer dispatched its event
C15_Witness ==
  /\ lastOp.op = "updateLayer"
  /\ lastOp.id \in IdsOf(layers)
  /\ Len(events) = 1

\* C16: after a wheel event the viewbox width is at least a tenth of the
\* initial width and at most ten times the initial width.
C16_WheelRange ==
  lastOp.op = "wheel" =>
    /\ viewBox.w * 10 >= InitialW
    /\ viewBox.w <= 10 * InitialW

\* a zoom-out step was stopped at ten times the initial width
C16_Witness ==
  /\ lastOp.op = "wheel"
  /\ lastOp.n > 0
  /\ viewBox.w = 10 * InitialW
  /\ viewBox.x # 0

C18_DragFollowsPointer ==
  [][(/\ lastOp'.op \in PointerMoves
      /\ lastOp'.n = 1
      /\ scn.phase \in {5, 6}
      /\ canvas.dragLayerId # NoLayer
      /\ canvas.transformMode = "") =>
       LET id == canvas.dragLayerId
           old == scn.atPush[FindIndex(scn.atPush, id)]
           new == layers'[FindIndex(layers', id)]
           now == clientToSvg(State, lastOp'.clientX, lastOp'.clientY)
       IN  /\ new.x = old.x + (now.x - scn.downX)
           /\ new.y = old.y + (now.y - scn.downY)
           /\ new.width = old.width
           /\ new.height = old.height
           /\ new.rotation = old.rotation
           /\ (old.x = 10 /\ old.y = 10 /\ now.x - scn.downX = 5
                 /\ now.y - scn.downY = 0 - 5) => (new.x = 15 /\ new.y = 5)]_vars

\* the layer at (10, 10) was dragged by (5, -5), after a move elsewhere
C18_Witness ==
  /\ lastOp.op = "mousemove"
  /\ scn.phase = 6
  /\ canvas.dragLayerId = 1
  /\ steps >= 3
  /\ scn.atPush[1].x = 10
  /\ scn.atPush[1].y = 10
  /\ layers[1].x = 15
  /\ layers[1].y = 5
  /\ layers[1].width = 100
  /\ layers[1].height = 50

C20_StorageFailureSilent ==
  /\ thrown = ""
  /\ lastOp.op = "putError" => lastOp.id \in IdsOf(layers)

Corrupted == {<<Unparsable>>, <<JSONnull>>}
Missing == {<<>>, <<EmptyText>>}

ZoomDerived == zoomLevel.num * viewBox.w = zoomLevel.den * InitialW

\* C25: the zoom level always equals initialWidth / viewBox.w
C25_ZoomDerived == ZoomDerived

\* C26: a page loaded right after saveState has the layers, viewbox,
\* selection, undo stack and redo stack the model had at the save.
C26_SaveLoadRestores ==
  [][(lastOp.op = "saveState" /\ lastOp'.op = "reload")
       => /\ layers' = layers
          /\ viewBox' = viewBox
          /\ selectedLayerId' = selectedLayerId
          /\ undoStack' = undoStack
          /\ redoStack' = redoStack]_vars

\* a reload after a save of a model with layers, a selection, a zoomed
\* viewbox and both stacks non-empty
C26_Witness ==
  /\ lastOp = [op |-> "reload", id |-> 0, n |-> 1]
  /\ layers # <<>>
  /\ selectedLayerId # NoLayer
  /\ viewBox # DefaultViewBox
  /\ undoStack # <<>>
  /\ redoStack # <<>>

AccessorWrites ==
  {"changeReturnedArray", "assignReturnedLayer", "assignSelectedLayer",
   "assignReturnedViewBox"}

\* C22: a caller changing what getLayers(), getSelectedLayer() or
\* getViewBox() returned changes neither the live layers, the selection,
\* the viewbox nor the snapshot a later checkpoint takes.
C22_AccessorsCopy ==
  [][lastOp'.op \in AccessorWrites
       => /\ layers' = layers
          /\ selectedLayerId' = selectedLayerId
          /\ viewBox' = viewBox
          /\ pushUndo(State').undoStack = pushUndo(State).undoStack]_vars

DistinctIds(ls) ==
  \A i, j \in 1..Len(ls) : ls[i].id = ls[j].id => i = j

Snapshots ==
  {JSONparse(undoStack[i]) : i \in 1..Len(undoStack)}
    \cup {JSONparse(redoStack[i]) : i \in 1..Len(redoStack)}

\* C23: layer ids are pairwise distinct in the live list and in every
\* snapshot of the undo and redo stacks.
C23_UniqueIds ==
  /\ DistinctIds(layers)
  /\ \A ls \in Snapshots : DistinctIds(ls)

NoPayload(ls) == \A i \in 1..Len(ls) : "imageData" \notin DOMAIN ls[i]

\* C24: no live layer record and no undo or redo snapshot carries an
\* inlined image payload field.
C24_NoInlinedPayload ==
  /\ NoPayload(layers)
  /\ \A ls \in Snapshots : NoPayload(ls)

SelectedIndex == FindIndex(layers, selectedLayerId)

\* C27: an arrow-key nudge or an Alt+Arrow reorder that changes the list
\* pushes exactly one checkpoint, the list before the command, which one
\* undo restores; a command with no selection, a nudge of a locked layer and
\* a reorder that leaves the list as it is push nothing and keep the redo
\* stack.
C27_SingleShotCommands ==
  [][lastOp'.op \in {"keyNudge", "keyReorder"} =>
       /\ (\/ SelectedIndex = 0
           \/ (lastOp'.op = "keyNudge" /\ layers[SelectedIndex].locked))
            => layers' = layers
       /\ (lastOp'.op = "keyNudge" /\ SelectedIndex # 0
             /\ ~layers[SelectedIndex].locked) => layers' # layers
       /\ (lastOp'.op = "keyReorder" /\ SelectedIndex # 0 /\ layers' = layers)
            => SelectedIndex \in {1, Len(layers)}
       /\ IF layers' = layers
          THEN undoStack' = undoStack /\ redoStack' = redoStack
          ELSE /\ undoStack' = Append(undoStack, JSONstringify(layers))
               /\ redoStack' = <<>>
               /\ undo(State').layers = layers]_vars

\* a nudge and then a reorder of one of three layers: two commands, two
\* checkpoints, the later one being the list the nudge left
C27_Witness ==
  /\ lastOp.op = "keyReorder"
  /\ Len(layers) = 3
  /\ steps = 2
  /\ Len(undoStack) = 2
  /\ undoStack[1] # undoStack[2]
  /\ JSONparse(undoStack[2]) # layers

ActiveGestures ==
  (IF canvas.isPanning THEN {"panning"} ELSE {})
    \cup (IF canvas.dragLayerId # NoLayer THEN {"drag"} ELSE {})
    \cup (IF canvas.transformMode # "" THEN {"transform"} ELSE {})

\* C28: at most one of panning, drag target set, transform mode set holds.
C28_OneGesture == Cardinality(ActiveGestures) <= 1

\* the layer fields a step changes
ChangedFields ==
  IF Len(layers') # Len(layers) THEN {"length"}
  ELSE UNION {{k \in DOMAIN layers[i] \cup DOMAIN layers'[i] :
                 \/ k \notin DOMAIN layers[i]
                 \/ k \notin DOMAIN layers'[i]
                 \/ layers[i][k] # layers'[i][k]} : i \in 1..Len(layers)}

\* the fields the gesture latched at pointer-down may change
LatchedFields ==
  IF canvas.dragLayerId # NoLayer THEN {"x", "y"}
  ELSE IF canvas.transformMode = "rotate" THEN {"rotation"}
  ELSE IF canvas.transformMode # "" THEN {"width", "height"}
  ELSE {}

\* what the pointer-downs so far have latched
LatchedAtDown ==
  (IF canvas.dragLayerId # NoLayer THEN {"drag"} ELSE {})
    \cup (IF canvas.transformMode # "" THEN {"transform"} ELSE {})

\* C29: every pointer-move does the kind of mutation latched at
\* pointer-down, whatever keys were pressed or released since: a move
\* changes x and y only, a scale width and height only, a rotation the
\* rotation only, none of them the viewbox, and a pan no layer.
C29_KindLatched ==
  [][(lastOp'.op \in PointerMoves /\ Cardinality(LatchedAtDown) <= 1) =>
       /\ ChangedFields \subseteq LatchedFields
       /\ LatchedAtDown # {} => viewBox' = viewBox]_vars

\* C30: a mouse button pressed while no gesture is in progress: with Space
\* held nothing is selected and nothing starts; else on an unlocked layer
\* with Alt the layer is selected and the mode is rotate if R is held, else
\* scale-locked if Shift is held, else scale, with the pointer position and
\* the layer's width, height and rotation captured; else on an unlocked
\* layer the layer is selected and a drag starts with the plane point and
\* the layer's x, y captured; else nothing starts and the selection stays.
C30_DownPriority ==
  [][(lastOp'.op = "mousedown" /\ CanvasIdle(canvas)) =>
       LET e == lastOp'.e
           idx == FindIndex(layers, e.target)
           free == idx # 0 /\ ~layers[idx].locked
           pt == clientToSvg(State, e.clientX, e.clientY)
       IN  IF canvas.spaceDown
           THEN canvas' = canvas /\ selectedLayerId' = selectedLayerId
           ELSE IF free /\ e.altKey
           THEN /\ selectedLayerId' = e.target
                /\ canvas'.transformMode =
                     (IF canvas.rKeyDown THEN "rotate"
                      ELSE IF e.shiftKey THEN "scale-locked" ELSE "scale")
                /\ canvas'.transformLayerId = e.target
                /\ canvas'.transformStartX = e.clientX
                /\ canvas'.transformStartY = e.clientY
                /\ canvas'.layerStartW = layers[idx].width
                /\ canvas'.layerStartH = layers[idx].height
                /\ canvas'.layerStartRot = layers[idx].rotation
                /\ canvas'.dragLayerId = NoLayer
                /\ ~canvas'.isPanning
           ELSE IF free
           THEN /\ selectedLayerId' = e.target
                /\ canvas'.dragLayerId = e.target
                /\ canvas'.dragStartX = pt.x
                /\ canvas'.dragStartY = pt.y
                /\ canvas'.layerStartX = layers[idx].x
                /\ canvas'.layerStartY = layers[idx].y
                /\ canvas'.transformMode = ""
                /\ ~canvas'.isPanning
           ELSE canvas' = canvas /\ selectedLayerId' = selectedLayerId]_vars

\* Alt+Shift pressed on an unlocked layer with R held, in a moved viewbox:
\* the rotation has priority
C30_Witness ==
  /\ lastOp.op = "mousedown"
  /\ lastOp.e.altKey /\ lastOp.e.shiftKey
  /\ canvas.rKeyDown
  /\ canvas.transformMode = "rotate"
  /\ canvas.dragLayerId = NoLayer
  /\ viewBox # DefaultViewBox
  /\ selectedLayerId = lastOp.id

\* C31: a mouse-up while a drag target or a transform mode is set, and a
\* touch-end that leaves no touch while a drag target is set, push exactly
\* one checkpoint and empty the redo stack, whether or not the list changed.
C31_GestureEndCheckpoints ==
  [][(\/ (lastOp'.op = "mouseup" /\ LatchedAtDown # {})
      \/ (lastOp'.op = "touchend" /\ lastOp'.n = 0
            /\ canvas.dragLayerId # NoLayer))
       => /\ Len(undoStack') = Len(undoStack) + 1
          /\ redoStack' = <<>>]_vars

\* the layer the transform in progress is about, after the step
Transformed == layers'[FindIndex(layers', canvas.transformLayerId)]

\* C32: during a scale, after each pointer-move the layer has
\* width = max(10, startWidth + dx) and height = max(10, startHeight + dy),
\* dx and dy being the screen distance from the pointer-down; during a scale
\* or a proportional scale neither dimension is below 10.
C32_ScaleFormula ==
  [][(lastOp'.op = "mousemove" /\ canvas.transformMode \in {"scale", "scale-locked"}) =>
       LET e == lastOp'.e
           dx == e.clientX - canvas.transformStartX
           dy == e.clientY - canvas.transformStartY
       IN  /\ canvas.transformMode = "scale" =>
                /\ Transformed.width = Max(10, canvas.layerStartW + dx)
                /\ Transformed.height = Max(10, canvas.layerStartH + dy)
           /\ Transformed.width >= 10
           /\ Transformed.height >= 10]_vars

Abs(n) == IF n < 0 THEN 0 - n ELSE n

\* C33 as stated: during a proportional scale, after every pointer-move
\* width * startHeight = height * startWidth.
C33_RatioExact ==
  [][(lastOp'.op = "mousemove" /\ canvas.transformMode = "scale-locked") =>
       Transformed.width * canvas.layerStartH
         = Transformed.height * canvas.layerStartW]_vars

\* C33 amended: during a proportional scale, after every pointer-move the
\* height is 10 or differs from width * startHeight / startWidth by at most
\* one half (the height is rounded to an integer and bounded below by 10).
C33_RatioRounded ==
  [][(lastOp'.op = "mousemove" /\ canvas.transformMode = "scale-locked") =>
       \/ Transformed.height = 10
       \/ 2 * Abs(Transformed.height * canvas.layerStartW
                    - Transformed.width * canvas.layerStartH)
            <= canvas.layerStartW]_vars

\* a proportional scale of the 100 by 50 layer by one pixel: 101 by 51
C33_Witness ==
  /\ lastOp.op = "mousemove"
  /\ canvas.transformMode = "scale-locked"
  /\ canvas.transformLayerId = 1
  /\ layers[1].width = 101
  /\ layers[1].height = 51

\* C34: while panning, after each pointer-move the viewbox origin is the
\* origin captured at pan start minus the pointer's screen delta in plane
\* units of the captured viewbox, its width and height are the captured
\* ones, and the captured values are those of the first pan move; a
\* mouse-up that ends a pan changes neither the layers, the selection, the
\* stacks nor the viewbox.
C34_PanFollowsPointer ==
  [][/\ (lastOp'.op = "mousemove" /\ canvas'.isPanning) =>
          LET e == lastOp'.e
              start == IF canvas.isPanning THEN canvas.viewBoxStart ELSE viewBox
              startX == IF canvas.isPanning THEN canvas.panStartX ELSE e.clientX
              startY == IF canvas.isPanning THEN canvas.panStartY ELSE e.clientY
          IN  /\ canvas'.viewBoxStart = start
              /\ canvas'.panStartX = startX
              /\ canvas'.panStartY = startY
              /\ viewBox'.x * Rect.width
                   = start.x * Rect.width - (e.clientX - startX) * start.w
              /\ viewBox'.y * Rect.height
                   = start.y * Rect.height - (e.clientY - startY) * start.h
              /\ viewBox'.w = start.w
              /\ viewBox'.h = start.h
              /\ layers' = layers
     /\ (lastOp'.op = "mouseup" /\ canvas.isPanning) =>
          /\ ~canvas'.isPanning
          /\ layers' = layers
          /\ selectedLayerId' = selectedLayerId
          /\ undoStack' = undoStack
          /\ redoStack' = redoStack
          /\ viewBox' = viewBox]_vars

\* a pan of the zoomed viewbox ended after two moves that displaced it
C34_Witness ==
  /\ lastOp.op = "mouseup"
  /\ steps = 4
  /\ canvas.spaceDown /\ ~canvas.isPanning
  /\ canvas.viewBoxStart.w = 1600
  /\ viewBox # canvas.viewBoxStart
  /\ undoStack = <<>>

\* the fields in which two records differ
FieldsChanged(a, b) ==
  {k \in DOMAIN a \cup DOMAIN b :
     k \notin DOMAIN a \/ k \notin DOMAIN b \/ a[k] # b[k]}

\* the fields a move may change in the layer with this id
GestureFields(id) ==
  (IF id = canvas.dragLayerId THEN {"x", "y"} ELSE {})
    \cup (IF id = canvas.transformLayerId /\ canvas.transformMode = "rotate"
          THEN {"rotation"} ELSE {})
    \cup (IF id = canvas.transformLayerId
               /\ canvas.transformMode \in {"scale", "scale-locked"}
          THEN {"width", "height"} ELSE {})

\* C35: a pointer-move changes only the gesture fields of the gesture's
\* target layer (x, y for a drag; width, height for a scale; rotation for a
\* rotation): no other field, no other layer, not the order, the selection
\* or the undo and redo stacks.
C35_MoveFrame ==
  [][lastOp'.op \in PointerMoves =>
       /\ Len(layers') = Len(layers)
       /\ \A i \in 1..Len(layers) :
            FieldsChanged(layers[i], layers'[i]) \subseteq GestureFields(layers[i].id)
       /\ selectedLayerId' = selectedLayerId
       /\ undoStack' = undoStack
       /\ redoStack' = redoStack]_vars

\* a move of a drag changed the position of the second of two layers,
\* with a checkpoint of an earlier gesture on the undo stack
C35_Witness ==
  /\ lastOp.op \in PointerMoves
  /\ Len(layers) = 2
  /\ canvas.dragLayerId = 2
  /\ layers[2].x # 0
  /\ layers[1].x = 0
  /\ undoStack # <<>>

---------------------------------------------------------------------------
\* C36: in every reachable state the selected layer id is none or the id of
\* a layer of the live list
C36_SelectionValid ==
  selectedLayerId = NoLayer \/ selectedLayerId \in IdsOf(layers)

---------------------------------------------------------------------------
(* importProject, one step per image-store write *)

\* a document whose two layers both carry their image
TwoImageDoc ==
  [version |-> 1,
   layers |-> [array |-> TRUE,
               items |-> <<Assign(DocLayer(1, 1), [imageData |-> DataUrl]),
                           Assign(DocLayer(2, 2), [imageData |-> DataUrl])>>]]

ImportDocs == {Docs[4], Docs[5], TwoImageDoc}

\* the list importProject leaves when nothing else runs
ImportedLayers(doc) ==
  [i \in 1..Len(doc.layers.items) |->
     IF HasImageData(doc.layers.items[i])
     THEN DeleteField(doc.layers.items[i], "imageData")
     ELSE doc.layers.items[i]]

\* the write importProject waits for; before is the list importProject found
ImportTx(imageId, data, rest, doc, before) ==
  Assign(Tx("importPut", imageId, data, NoLayer, {}, rest),
         [doc |-> doc, before |-> before])

\* the statements of importProject after its loop
importFinish(m, doc) ==
  LET restored ==
        [m EXCEPT
           !.viewBox = IF "viewBox" \in DOMAIN doc THEN doc.viewBox
                       ELSE DefaultViewBox,
           !.selectedLayerId =
              IF "selectedLayerId" \in DOMAIN doc THEN doc.selectedLayerId
              ELSE NoLayer]
  IN  dispatch(saveState(restored), "state-changed", NoDetail)

\* the loop of importProject from the layers in items up to its next await
RECURSIVE importLoop(_, _, _, _, _)
importLoop(m, q, items, doc, before) ==
  IF items = <<>> THEN [m |-> importFinish(m, doc), q |-> q]
  ELSE IF HasImageData(Head(items))
  THEN [m |-> storeImageBegin(m, Head(items).imageId, Head(items).imageData),
        q |-> Append(q, ImportTx(Head(items).imageId, Head(items).imageData,
                                 items, doc, before))]
  ELSE importLoop([m EXCEPT !.layers = Append(@, Head(items))], q,
                  Tail(items), doc, before)

\* importProject up to its first await
importBegin(m, q, doc) ==
  IF InvalidProject(doc)
  THEN [m |-> [m EXCEPT !.thrown = "Invalid project file: must have version and layers array"],
        q |-> q]
  ELSE importLoop([m EXCEPT !.layers = <<>>, !.undoStack = <<>>, !.redoStack = <<>>],
                  q, doc.layers.items, doc, m.layers)

\* the code after await storeImage(...) in importProject
importContinue(m, q, tx) ==
  LET stored == [m EXCEPT !.imageStore = MapSet(@, tx.imageId, tx.data)]
      layer == DeleteField(Head(tx.rest), "imageData")
  IN  importLoop([stored EXCEPT !.layers = Append(@, layer)], q,
                 Tail(tx.rest), tx.doc, tx.before)

\* one import at a time
ImportBegin ==
  /\ InFlight({"importPut"}) = {}
  /\ \E doc \in ImportDocs :
       Async("importBegin", 0, 0, importBegin(State, txQueue, doc))

\* the oldest transaction completes
ImportTxComplete ==
  /\ txQueue # <<>>
  /\ Async(txQueue[1].kind, txQueue[1].layerId, txQueue[1].imageId,
           IF txQueue[1].kind = "importPut"
           THEN importContinue(State, Tail(txQueue), txQueue[1])
           ELSE txComplete(State, txQueue))

\* an import interleaved with ingestion and the history operations
NextImport ==
  \/ ImportBegin
  \/ ImportTxComplete
  \/ PasteBegin
  \/ PushUndo
  \/ Undo
  \/ Redo

SpecImport == InitAsync /\ [][NextImport]_vars

\* C37: a handler that runs while an import waits for a write finds the list
\* of before the import or the imported list, and when the import finishes
\* the list is the imported one and both history stacks are empty
C37_ImportAtomic ==
  [][/\ (InFlight({"importPut"}) # {} /\ lastOp'.op # "importPut") =>
          \A i \in InFlight({"importPut"}) :
             layers \in {txQueue[i].before, ImportedLayers(txQueue[i].doc)}
     /\ (txQueue # <<>> /\ txQueue[1].kind = "importPut" /\ lastOp'.op = "importPut"
         /\ \A i \in 1..Len(txQueue') : txQueue'[i].kind # "importPut") =>
          /\ layers' = ImportedLayers(txQueue[1].doc)
          /\ undoStack' = <<>>
          /\ redoStack' = <<>>]_vars

\* C38: every live layer's image is in the cache
C38_LiveImagesCached ==
  \A i \in 1..Len(layers) : getImageSync(State, layers[i].imageId) # EmptyData

---------------------------------------------------------------------------
(* The opacity slider of a layer row: input events while the thumb moves,  *)
(* then one change event with the value of the last input event.           *)

SliderValues == {25, 50, 75}

\* a drag in progress: phase 9 after an input event, atPush the list before
\* the first one; 10 after the change event; 11 after the undo that follows
SliderStep(op, id, n, m, g) ==
  /\ steps < MaxEvents
  /\ steps' = steps + 1
  /\ Becomes(m)
  /\ UNCHANGED <<canvas, txQueue>>
  /\ lastOp' = [op |-> op, id |-> id, n |-> n]
  /\ scn' = g

SliderInput ==
  \E id \in LiveIds, value \in SliderValues :
    /\ scn.phase = 9 => id = lastOp.id
    /\ SliderStep("opacityInput", id, value, opacityInput(State, id, value),
                  IF scn.phase = 9 THEN scn
                  ELSE [phase |-> 9, atPush |-> layers, postMut |-> <<>>])

SliderChange ==
  /\ scn.phase = 9
  /\ SliderStep("opacityChange", lastOp.id, lastOp.n,
                opacityChange(State, lastOp.id, lastOp.n),
                [scn EXCEPT !.phase = 10, !.postMut = layers])

SliderUndo ==
  SliderStep("keyUndo", 0, 0, keyUndo(State),
             IF scn.phase = 10 THEN [scn EXCEPT !.phase = 11] ELSE NoScenario)

SliderRedo == SliderStep("keyRedo", 0, 0, keyRedo(State), NoScenario)

NextSlider ==
  \/ SliderInput
  \/ SliderChange
  \/ SliderUndo
  \/ SliderRedo

SpecSlider == InitKeys /\ [][NextSlider]_vars

\* C39: after a slider drag (input events, then the change event) one undo
\* gives every layer the opacity it had before the drag started
C39_SliderUndoable ==
  scn.phase = 11 =>
    /\ Len(layers) = Len(scn.atPush)
    /\ \A i \in 1..Len(layers) : layers[i].opacity = scn.atPush[i].opacity

---------------------------------------------------------------------------
(* A delete transaction that fails: tx.onerror rejects deleteImage's       *)
(* promise, which the loop of collectGarbageImages awaits without a catch. *)

\* the cache entry went when deleteImage was called; the store keeps the
\* image, and the loop is left by the rejection
deleteError(m, q) ==
  [m |-> [m EXCEPT !.thrown = "deleteImage rejected"], q |-> Tail(q)]

DeleteError ==
  /\ txQueue # <<>>
  /\ txQueue[1].kind = "delete"
  /\ Async("deleteError", NoLayer, txQueue[1].imageId, deleteError(State, txQueue))

\* the collector with deletions that may fail, beside pastes and undo
NextSweep ==
  \/ GcBegin
  \/ TxComplete
  \/ DeleteError
  \/ PasteBegin
  \/ PushUndo
  \/ Undo

SpecSweep == InitAsync /\ [][NextSweep]_vars

\* C40: when the deletion of an unreferenced image fails, the image stays in
\* the store and the sweep goes on to the next unreferenced image
C40_SweepContinues ==
  [][lastOp'.op = "deleteError" =>
       LET tx == txQueue[1]
           todo == SkipReferenced(tx.rest, tx.referenced)
       IN  /\ tx.imageId \in DOMAIN imageStore'
           /\ todo # <<>> =>
                \E i \in 1..Len(txQueue') :
                   /\ txQueue'[i].kind = "delete"
                   /\ txQueue'[i].imageId = todo[1]]_vars

====
